---- MODULE Spec2Model ----
(***************************************************************************)
(* Weapon control core: the per-weapon control state machine               *)
(* (WeaponBase), the launch tube that owns a weapon and its engagement     *)
(* manager (LaunchTube) and the launch-tube coordinator                    *)
(* (LaunchTubeManager), as threads sharing memory: command threads that    *)
(* call into the coordinator and the periodic tick thread.                 *)
(*                                                                         *)
(* A step of the model is one access to shared memory (an atomic load,     *)
(* store or exchange, a mutex acquisition) together with the thread-local  *)
(* code around it.  A 50 ms sleep slice is the passage from one poll of    *)
(* the cancellation tokens to the next.                                    *)
(***************************************************************************)
EXTENDS Integers, Sequences, FiniteSets, TLC

\* ------------------------------------------------------------------ bounds
\* Tubes 1..MaxTubes (SystemConfig default 6, scaled down).
MaxTubes == 2
\* 50 ms slices of the power-on delay (m_onDelay * 1000 / 50; default 60).
PocSlices == 1
\* 50 ms slices of one launch step (1.0f * 1000 / 50 = 20 in the source).
StepSlices == 1
\* Number of entries of m_launchSteps.
NumLaunchSteps == 3

Tubes == 1..MaxTubes
Threads == {"c1", "c2"}
NoThread == "none"
NoWeapon == "null"

States == {"OFF", "POC", "ON", "RTL", "LAUNCH", "POST_LAUNCH", "ABORT"}
MissileKinds == {"ALM"}
WeaponKinds == MissileKinds \cup {"M_MINE"}

VARIABLES
    m_weapon,                    \* tube -> NoWeapon or the thread whose assign created the weapon
    m_engagementMgr,             \* tube -> NoWeapon or the thread whose assign created the manager
    m_assignmentInfo,            \* tube -> AssignmentInfo
    m_currentState,              \* tube -> control state of the tube's weapon
    m_launched,                  \* tube -> BOOLEAN
    m_fireSolutionReady,         \* tube -> BOOLEAN
    m_stateMutex,                \* tube -> NoThread or the thread holding the weapon's state mutex
    m_currentCancellationToken,  \* tube -> <<"tok", thread>> (shares the thread's request token) or <<"own", flag>>
    tokenCancelled,              \* thread -> the flag of the token of the thread's request in flight
    mgr,                         \* tube -> engagement manager fields
    m_targetInfoMap,             \* the coordinator's track registry: the set of known target ids
    th,                          \* thread -> program counter and locals of a command thread
    tick,                        \* program counter and locals of the tick thread
    readyInOn,                   \* history: tube -> fire_solution_ready has been true during
                                 \* the weapon's present stay in ON
    clearedFrom,                 \* history: tube -> the control state its weapon was in when
                                 \* clearAssignment last reset one ("OFF" before the first)
    callLog,                     \* history: the target calls made on the manager of tube 1
    metRunning,                  \* history: thread -> its request that is no ABORT waits at the
                                 \* state mutex and has waited there while another request on
                                 \* the weapon was in its POC wait or its launch steps
    m_cachedPlans,               \* MineDropPlanService: cached list number -> sequence of plans
    planFiles,                   \* the plan data directory: list number of an existing file -> its content
    planCall,                    \* the last MineDropPlanService call and its result
    m_targets,                   \* TargetTrackingService: target id -> lastUpdateTime
    m_targetsMutex,              \* TargetTrackingService: TRUE while the registry lock is held
    lastCleanup,                 \* the function-static time of the last sweep (NoTime before the first call)
    now,                         \* steady_clock, in minutes
    trackCall,                   \* position and result of the TargetTrackingService call in flight
    eng,                         \* one engagement manager with its positions and its EngagementPlanResult
    run,                         \* runner -> the call it is in and the steps of the call still to take
    m_observerMutex,             \* NoThread or the runner holding the observer mutex of tube 1's weapon
    m_tubesMutex,                \* the coordinator's tubes lock: its exclusive holder and its shared holders
    m_observers,                 \* TRUE while tube 1 is registered as observer of its weapon
    delivered,                   \* history: the last change the state-change callback was called with (NoNote before the first)
    m_lastEngagementResult,      \* LaunchTube (tube 1): the result its change detection compares with
    planLog                      \* history: the last result the engagement-plan callback of tube 1 was called with
                                 \* (NoNote before the first), and whether the tube's present assignment
                                 \* has not yet compared a valid plan

vars == <<m_weapon, m_engagementMgr, m_assignmentInfo, m_currentState, m_launched,
          m_fireSolutionReady, m_stateMutex, m_currentCancellationToken,
          tokenCancelled, mgr, m_targetInfoMap, th, tick, readyInOn, clearedFrom,
          callLog, metRunning, m_cachedPlans, planFiles, planCall, m_targets, m_targetsMutex,
          lastCleanup, now, trackCall, eng, run, m_observerMutex, m_tubesMutex,
          m_observers, delivered, m_lastEngagementResult, planLog>>

planVars == <<m_cachedPlans, planFiles, planCall>>
trackVars == <<m_targets, m_targetsMutex, lastCleanup, now, trackCall>>
fineVars == <<run, m_observerMutex, m_tubesMutex, m_observers, delivered>>
noteVars == <<m_lastEngagementResult, planLog>>
sideVars == <<eng, fineVars, noteVars>>

tubeVars == <<m_weapon, m_engagementMgr, m_assignmentInfo>>
weaponVars == <<m_currentState, m_launched, m_fireSolutionReady, m_stateMutex,
                m_currentCancellationToken>>

\* ------------------------------------------------------------ plain values
DefaultAssignmentInfo ==
    [tubeNumber |-> 0, weaponKind |-> "NA", systemTargetId |-> 0,
     dropPlanListNumber |-> 0, dropPlanNumber |-> 0, by |-> NoThread]

FreshManager ==
    [kind |-> "NA", systemTargetId |-> 0, hasValidTarget |-> FALSE,
     isValid |-> FALSE, launched |-> FALSE, dropPlanNumber |-> 0,
     waypoints |-> 0, dropPlanWaypoints |-> 0, trajectory |-> 0]

\* A default-constructed geodetic position, and EngagementPlanResult() as its
\* constructor leaves it.
DefaultPosition == [lat |-> 0, alt |-> 0]

DefaultPlanResult ==
    [isValid |-> FALSE, totalTime_sec |-> 0, trajectory |-> <<>>,
     launchPosition |-> DefaultPosition, targetPosition |-> DefaultPosition]

\* No engagement manager constructed.
NoManager ==
    [kind |-> "NA", m_launchPosition |-> DefaultPosition,
     m_targetPosition |-> DefaultPosition, m_systemTargetId |-> 0,
     m_hasValidTarget |-> FALSE, m_waypoints |-> <<>>, m_dropPlanNumber |-> 0,
     m_engagementResult |-> DefaultPlanResult]

\* The threads of the step-by-step view: the command threads and the tick.
Runners == Threads \cup {"tick"}
IdleRun == [op |-> "idle", todo |-> <<>>, newState |-> "OFF", seen |-> "OFF"]
CrashedRun == [x \in Runners |-> [IdleRun EXCEPT !.op = "crashed"]]
NoNote == <<>>
\* No state-change callback is set on the coordinator
\* (LaunchTubeManager::m_stateChangeCallback is empty).
NoCallback == <<"unset">>

IdleThread ==
    [pc |-> "idle", caller |-> "cmd", tube |-> 0, newState |-> "OFF", step |-> 0,
     slice |-> 0, ok |-> FALSE, why |-> "none", noted |-> FALSE,
     todo |-> <<>>, allSuccess |-> TRUE, info |-> DefaultAssignmentInfo,
     kind |-> "NA", asked |-> 0]

IdleTick == [pc |-> "idle", todo |-> <<>>, seen |-> "OFF", next |-> "OFF"]

\* The process after a fault (a null or dangling pointer dereferenced): no
\* thread takes a further step.
CrashedThreads == [c \in Threads |-> [IdleThread EXCEPT !.pc = "crashed"]]
CrashedTick == [IdleTick EXCEPT !.pc = "crashed"]

\* The tubes of S in increasing order (the loop of getAssignedTubes).
RECURSIVE Ascending(_)
Ascending(S) ==
    IF S = {} THEN <<>>
    ELSE LET m == CHOOSE x \in S : \A y \in S : x <= y
         IN <<m>> \o Ascending(S \ {m})

\* --------------------------------------------------------------- the weapon
s_defaultTransitionMap ==
    [s \in States |->
        CASE s = "OFF"         -> {"ON"}
          [] s = "ON"          -> {"OFF"}
          [] s = "RTL"         -> {"LAUNCH", "OFF"}
          [] s = "LAUNCH"      -> {"ABORT"}
          [] s = "ABORT"       -> {"OFF"}
          [] s = "POST_LAUNCH" -> {"OFF"}
          [] OTHER             -> {}]

\* A check that accepts a target found in any row of the map.
isValidTransition_AnyRow(from, to) == \E s \in States : to \in s_defaultTransitionMap[s]

\* WeaponBase::isValidTransition
isValidTransition(from, to) == to \in s_defaultTransitionMap[from]

\* A tube that claims a weapon whether it holds one or not.
hasWeapon_Always(t) == TRUE

hasWeapon(t) == m_weapon[t] # NoWeapon

\* LaunchTube::getStatus.
getStatus(t) ==
    IF hasWeapon(t)
    THEN [hasWeapon |-> TRUE, weaponState |-> m_currentState[t],
          launched |-> m_launched[t], engagementPlanValid |-> mgr[t].isValid]
    ELSE [hasWeapon |-> FALSE, weaponState |-> "OFF", launched |-> FALSE,
          engagementPlanValid |-> FALSE]

\* LaunchTubeManager::isValidTubeNumber and getValidatedTube: the tube of
\* that number, NoTube (the null pointer) for a number out of range.
NoTube == 0
isValidTubeNumber(tubeNumber) == tubeNumber >= 1 /\ tubeNumber <= MaxTubes

\* A lookup that takes the nearest tube for a number out of range.
getValidatedTube_Nearest(tubeNumber) ==
    IF tubeNumber < 1 THEN 1 ELSE IF tubeNumber > MaxTubes THEN MaxTubes ELSE tubeNumber

getValidatedTube(tubeNumber) ==
    IF isValidTubeNumber(tubeNumber) THEN tubeNumber ELSE NoTube

checkInterlockConditions(t) == m_fireSolutionReady[t]

\* CancellationToken::isCancelled on the weapon's current-operation token.
currentTokenCancelled(t) ==
    IF m_currentCancellationToken[t][1] = "tok"
    THEN tokenCancelled[m_currentCancellationToken[t][2]]
    ELSE m_currentCancellationToken[t][2]

\* A cancel() that inverts the flag.
cancelCurrentToken_Inverting(t, cur, flags) ==
    IF cur[t][1] = "tok"
    THEN <<cur, [flags EXCEPT ![cur[t][2]] = ~@]>>
    ELSE <<[cur EXCEPT ![t] = <<"own", ~cur[t][2]>>], flags>>

\* A cancel() that leaves the token as it is.
cancelCurrentToken_Skipped(t, cur, flags) == <<cur, flags>>

\* The tokens after cancel() on the weapon's current-operation token:
\* <<m_currentCancellationToken', tokenCancelled'>>.
cancelCurrentToken(t, cur, flags) ==
    IF cur[t][1] = "tok"
    THEN <<cur, [flags EXCEPT ![cur[t][2]] = TRUE]>>
    ELSE <<[cur EXCEPT ![t] = <<"own", TRUE>>], flags>>

\* A request's token goes out of scope in the calling thread: a weapon that
\* still shares it keeps the flag as it is.
dropToken(c, cur) ==
    [t \in Tubes |->
        IF cur[t] = <<"tok", c>> THEN <<"own", tokenCancelled[c]>> ELSE cur[t]]

\* WeaponBase::setState: the atomic exchange of m_currentState.
setState(t, s) == [m_currentState EXCEPT ![t] = s]

\* ------------------------------------------------- MineDropPlanService
\* m_maxPlanLists: the configured MineDropPlan.MaxPlanLists (a deployment
\* with one plan list; the default is 15).
MaxPlanLists == 1
\* m_maxPlansPerList (SystemConfig default 15, scaled down).
MaxPlansPerList == 2

PlanLists == 1..MaxPlanLists
\* List numbers and plan numbers a caller may pass, valid or not.
CallLists == 0..(MaxPlanLists + 1)
PlanNumbers == 0..(MaxPlansPerList + 1)

\* Latitudes in units of 0.00001 degree: 37.0, 37.00004 and 95.0.
Latitudes == {3700000, 3700004, 9500000}

\* The slots of a plan's waypoint array that validatePlan reads.
WaypointSlots == 8

\* A position: latitude and longitude in units of 0.00001 degree, depth in
\* metres.
PositionOf(lat, lon, depth) == [lat |-> lat, lon |-> lon, depth |-> depth]
DefaultWaypoint == PositionOf(0, 0, 0)

\* A drop plan: its number, the launch and drop positions (latitudes first),
\* the waypoint count and the waypoint array.
PlanOf(n, lat) ==
    [usDroppingPlanNumber |-> n, launchLat |-> lat, dropLat |-> 3600000,
     launchLon |-> 12700000, launchDepth |-> 0, dropLon |-> 12700000, dropDepth |-> 0,
     usWaypointCnt |-> 0, stWaypoint |-> [i \in 1..WaypointSlots |-> DefaultWaypoint]]

stLaunchPos(plan) == PositionOf(plan.launchLat, plan.launchLon, plan.launchDepth)
stDropPos(plan) == PositionOf(plan.dropLat, plan.dropLon, plan.dropDepth)

\* The plans callers pass: every plan number at 37.0, plan 1 also at
\* 37.00004 and at 95.0.
PlanInputs ==
    {PlanOf(n, 3700000) : n \in PlanNumbers} \cup {PlanOf(1, lat) : lat \in Latitudes}

\* The plan vectors callers pass to savePlanList: the first n plans for n up
\* to one more than a list may hold, and single plans.
PlanVectors ==
    {[i \in 1..n |-> PlanOf(i, 3700000)] : n \in 0..(MaxPlansPerList + 1)}
        \cup {<<p>> : p \in PlanInputs}

\* Outcomes of the file stream: opened and written, not opened, or opened
\* and a write failed (the stream's state is never read).
IoOutcomes == {"written", "open_failed", "write_failed"}

EmptyMap == [x \in {} |-> <<>>]
Put(f, k, v) == [x \in DOMAIN f \cup {k} |-> IF x = k THEN v ELSE f[x]]
Erase(f, k) == [x \in DOMAIN f \ {k} |-> f[x]]

\* MineDropPlanService::isValidPlanListNumber
isValidPlanListNumber(planListNumber) ==
    planListNumber >= 1 /\ planListNumber <= MaxPlanLists

\* MineDropPlanService::validatePosition: latitude -90 .. 90 degrees,
\* longitude -180 .. 180 degrees, depth -1000 .. 10000 metres.
validatePosition(position) ==
    /\ ~(position.lat < -9000000 \/ position.lat > 9000000)
    /\ ~(position.lon < -18000000 \/ position.lon > 18000000)
    /\ ~(position.depth < -1000 \/ position.depth > 10000)

\* MineDropPlanService::validatePlan: the loop over the waypoints stops at
\* the count or at the eighth slot, whichever comes first.
validatePlan(plan) ==
    /\ plan.usDroppingPlanNumber # 0
    /\ validatePosition(stLaunchPos(plan))
    /\ validatePosition(stDropPos(plan))
    /\ \A i \in 1..WaypointSlots :
           i <= plan.usWaypointCnt => validatePosition(plan.stWaypoint[i])

\* operator<< of a double at the stream's default precision of six
\* significant digits (values here are non-negative and below 1000 degrees).
RoundTo(x, q) == ((x + q \div 2) \div q) * q
formatDouble(x) ==
    IF x < 1000000 THEN x
    ELSE IF x < 10000000 THEN RoundTo(x, 10)
    ELSE RoundTo(x, 100)

\* The object writeJsonToFile writes for one plan.
planJson(plan) ==
    [planNumber |-> plan.usDroppingPlanNumber,
     launchLat |-> formatDouble(plan.launchLat),
     dropLat |-> formatDouble(plan.dropLat),
     waypointCount |-> plan.usWaypointCnt]

\* MineDropPlanService::writeJsonToFile: <<files, success>>.  A file that
\* cannot be opened is left as it was; an opened file is truncated, and a
\* failing write leaves it incomplete while the call still reports success.
writeJsonToFile(files, planListNumber, plans, io) ==
    IF io = "open_failed" THEN <<files, FALSE>>
    ELSE IF io = "write_failed"
    THEN <<Put(files, planListNumber, [complete |-> FALSE, plans |-> <<>>]), TRUE>>
    ELSE <<Put(files, planListNumber,
               [complete |-> TRUE,
                plans |-> [i \in 1..Len(plans) |-> planJson(plans[i])]]), TRUE>>

\* MineDropPlanService::readJsonFromFile: <<success, plans>>.  The file's
\* content is not parsed: an existing file reads as the empty vector.
readJsonFromFile(files, planListNumber) ==
    IF planListNumber \notin DOMAIN files THEN <<FALSE, <<>>>>
    ELSE <<TRUE, <<>>>>

\* The service's state as a record of the cache and the files, and the
\* result of a call as <<state, success, message>>.
planState == [cache |-> m_cachedPlans, files |-> planFiles]

\* MineDropPlanService::getPlanList
getPlanList(st, planListNumber) ==
    IF ~isValidPlanListNumber(planListNumber) THEN <<>>
    ELSE IF planListNumber \in DOMAIN st.cache THEN st.cache[planListNumber]
    ELSE <<>>

\* MineDropPlanService::getPlan: <<success, plan>>.
getPlan(st, planListNumber, planNumber) ==
    LET plans == getPlanList(st, planListNumber)
        found == {i \in 1..Len(plans) : plans[i].usDroppingPlanNumber = planNumber}
    IN  IF found = {} THEN <<FALSE, PlanOf(0, 0)>>
        ELSE <<TRUE, plans[CHOOSE i \in found : \A j \in found : i <= j]>>

\* MineDropPlanService::loadPlanList
loadPlanList(st, planListNumber) ==
    IF ~isValidPlanListNumber(planListNumber)
    THEN <<st, FALSE, "Invalid plan list number">>
    ELSE LET plans == readJsonFromFile(st.files, planListNumber) IN
         IF ~plans[1] THEN <<st, FALSE, "Failed to load plan list">>
         ELSE <<[st EXCEPT !.cache = Put(st.cache, planListNumber, plans[2])], TRUE, "">>

\* MineDropPlanService::savePlanList
savePlanList(st, planListNumber, plans, io) ==
    IF ~isValidPlanListNumber(planListNumber)
    THEN <<st, FALSE, "Invalid plan list number">>
    ELSE IF Len(plans) > MaxPlansPerList
    THEN <<st, FALSE, "Too many plans in list">>
    ELSE IF \E i \in 1..Len(plans) : ~validatePlan(plans[i])
    THEN <<st, FALSE, "Invalid plan in list">>
    ELSE LET result == writeJsonToFile(st.files, planListNumber, plans, io) IN
         IF ~result[2] THEN <<st, FALSE, "Cannot open file for writing">>
         ELSE <<[cache |-> Put(st.cache, planListNumber, plans), files |-> result[1]],
                TRUE, "">>

\* MineDropPlanService::createNewPlanList
createNewPlanList(st, planListNumber, io) ==
    IF ~isValidPlanListNumber(planListNumber)
    THEN <<st, FALSE, "Invalid plan list number">>
    ELSE savePlanList(st, planListNumber, <<>>, io)

\* MineDropPlanService::deletePlanList
deletePlanList(st, planListNumber) ==
    IF ~isValidPlanListNumber(planListNumber)
    THEN <<st, FALSE, "Invalid plan list number">>
    ELSE <<[cache |-> Erase(st.cache, planListNumber),
            files |-> Erase(st.files, planListNumber)], TRUE, "">>

\* The index of the first plan of the vector with the given number, 0 if none
\* (std::find_if).
findPlan(plans, planNumber) ==
    LET found == {i \in 1..Len(plans) : plans[i].usDroppingPlanNumber = planNumber}
    IN  IF found = {} THEN 0 ELSE CHOOSE i \in found : \A j \in found : i <= j

\* MineDropPlanService::updatePlan
updatePlan(st, planListNumber, plan, io) ==
    IF ~validatePlan(plan) THEN <<st, FALSE, "Invalid plan">>
    ELSE LET plans == getPlanList(st, planListNumber)
             it == findPlan(plans, plan.usDroppingPlanNumber)
         IN  savePlanList(st, planListNumber,
                          IF it # 0 THEN [plans EXCEPT ![it] = plan]
                          ELSE Append(plans, plan), io)

\* An addPlan without the search for the plan number.
addPlan_NoSearch(st, planListNumber, plan, io) ==
    IF ~validatePlan(plan) THEN <<st, FALSE, "Invalid plan">>
    ELSE LET plans == getPlanList(st, planListNumber) IN
         IF Len(plans) >= MaxPlansPerList THEN <<st, FALSE, "Plan list is full">>
         ELSE savePlanList(st, planListNumber, Append(plans, plan), io)

\* MineDropPlanService::addPlan
addPlan(st, planListNumber, plan, io) ==
    IF ~validatePlan(plan) THEN <<st, FALSE, "Invalid plan">>
    ELSE LET plans == getPlanList(st, planListNumber) IN
         IF Len(plans) >= MaxPlansPerList THEN <<st, FALSE, "Plan list is full">>
         ELSE IF findPlan(plans, plan.usDroppingPlanNumber) # 0
         THEN <<st, FALSE, "Plan number already exists">>
         ELSE savePlanList(st, planListNumber, Append(plans, plan), io)

\* MineDropPlanService::removePlan
removePlan(st, planListNumber, planNumber, io) ==
    LET plans == getPlanList(st, planListNumber)
        it == findPlan(plans, planNumber)
    IN  IF it = 0 THEN <<st, FALSE, "Plan not found">>
        ELSE savePlanList(st, planListNumber,
                          [i \in 1..(Len(plans) - 1) |->
                              IF i < it THEN plans[i] ELSE plans[i + 1]], io)

\* MineDropPlanService::initialize from list i on: every list is loaded, and
\* a list that does not load is created empty.
RECURSIVE initializeFrom(_, _, _)
initializeFrom(st, i, io) ==
    IF i > MaxPlanLists THEN st
    ELSE LET result == loadPlanList(st, i) IN
         initializeFrom(IF result[2] THEN result[1]
                        ELSE createNewPlanList(st, i, io)[1], i + 1, io)

NoPlanCall == [op |-> "none", list |-> 0, ok |-> TRUE, why |-> "", io |-> "none"]

\* ------------------------------------------------ TargetTrackingService
\* steady_clock runs in minutes up to MaxNow.
MaxNow == 7
\* The sweep is attempted when more than SweepPeriod minutes have passed
\* since the last one and removes entries older than MaxAge minutes.
SweepPeriod == 1
MaxAge == 5
NoTime == 0 - 1
RegistryIds == {1, 2}

IdleTrackCall == [pc |-> "idle", id |-> 0, result |-> "none"]

\* The loop of TargetTrackingService::clearOldTargets over a registry.
evictOld(targets, maxAge) ==
    [id \in {i \in DOMAIN targets : ~(now - targets[i] > maxAge)} |-> targets[id]]

\* Both services as constructed: nothing cached, no file written, no track.
ServicesInit ==
    /\ m_cachedPlans = EmptyMap
    /\ planFiles = EmptyMap
    /\ planCall = NoPlanCall
    /\ m_targets = EmptyMap
    /\ m_targetsMutex = FALSE
    /\ lastCleanup = NoTime
    /\ now = 0
    /\ trackCall = IdleTrackCall
    /\ eng = NoManager
    /\ run = [x \in Runners |-> IdleRun]
    /\ m_observerMutex = NoThread
    /\ m_tubesMutex = [writer |-> NoThread, readers |-> {}]
    /\ m_observers = (m_weapon[1] # NoWeapon)
    /\ m_lastEngagementResult = DefaultPlanResult
    /\ planLog = [delivered |-> NoNote, fresh |-> TRUE]

\* The history variables follow every step; no action reads them.
HistoryStep ==
    /\ readyInOn' = [t \in Tubes |->
          IF m_currentState'[t] # "ON" THEN FALSE
          ELSE m_fireSolutionReady'[t] \/ (m_currentState[t] = "ON" /\ readyInOn[t])]
    /\ clearedFrom' = [t \in Tubes |->
          IF \E c \in Threads : /\ th[c].pc = "cl_reset" /\ th'[c].pc = "cl_weapon"
                                /\ th[c].tube = t /\ m_weapon[t] # NoWeapon
          THEN m_currentState[t] ELSE clearedFrom[t]]
    /\ metRunning' = [c \in Threads |->
          /\ th'[c].pc = "rsc_lock"
          /\ th'[c].newState # "ABORT"
          /\ \/ metRunning[c]
             \/ \E d \in Threads \ {c} :
                   /\ th'[d].pc \in {"poc_wait", "launch_run"}
                   /\ th'[d].tube = th'[c].tube]

History == HistoryStep /\ UNCHANGED <<callLog, planVars, trackVars, sideVars>>

\* A loop that gives up at the first request that fails.
Returned_StopAtFailure(r, ok, why) ==
    IF r.caller \in {"estop", "all"}
    THEN [r EXCEPT !.pc = "es_next", !.ok = ok, !.why = why,
                   !.allSuccess = r.allSuccess /\ ok,
                   !.todo = IF ok THEN Tail(r.todo) ELSE <<>>]
    ELSE [r EXCEPT !.pc = "ret", !.ok = ok, !.why = why]

\* What requestStateChange hands back to its caller: a plain command returns
\* to "ret"; emergencyStop and requestAllWeaponStateChange accumulate the
\* result and go on with their loop.
Returned(r, ok, why) ==
    IF r.caller \in {"estop", "all"}
    THEN [r EXCEPT !.pc = "es_next", !.ok = ok, !.why = why,
                   !.allSuccess = r.allSuccess /\ ok, !.todo = Tail(r.todo)]
    ELSE [r EXCEPT !.pc = "ret", !.ok = ok, !.why = why]

\* The targets whose processing reads the caller's token (processTurnOn,
\* processLaunch); for every other target requestStateChange never looks at it.
TokenReaders == {"ON", "LAUNCH"}

\* LaunchTubeManager::requestWeaponStateChange -> LaunchTube::requestWeaponStateChange:
\* the tube lookup and the hasWeapon check, up to the call into the weapon.
\* pre: whether the caller's token is already cancelled when it is passed.
RequestBegin(c, n, ns, pre) ==
    LET t == getValidatedTube(n) IN
    /\ th[c].pc = "idle"
    /\ pre => ns \in TokenReaders
    /\ IF t = NoTube
       THEN /\ th' = [th EXCEPT ![c] = [IdleThread EXCEPT !.pc = "ret", !.tube = t, !.asked = n,
                                                          !.newState = ns,
                                                          !.why = "InvalidTube"]]
            /\ UNCHANGED tokenCancelled
       ELSE IF hasWeapon(t)
       THEN /\ th' = [th EXCEPT ![c] = [IdleThread EXCEPT !.pc = "rsc_lock", !.tube = t, !.asked = n,
                                                          !.newState = ns]]
            /\ tokenCancelled' = [tokenCancelled EXCEPT ![c] = pre]
       ELSE /\ th' = [th EXCEPT ![c] = [IdleThread EXCEPT !.pc = "ret", !.tube = t, !.asked = n,
                                                          !.newState = ns,
                                                          !.why = "NotAssigned"]]
            /\ UNCHANGED tokenCancelled
    /\ UNCHANGED <<tubeVars, m_targetInfoMap, weaponVars, mgr, tick>>
    /\ History

\* WeaponBase::requestStateChange, lines 48-66: take the state mutex, load the
\* state, and either cancel the current token (ABORT), reject the transition,
\* or install the caller's token as the current-operation token.
requestStateChange(c) ==
    LET t == th[c].tube
        ns == th[c].newState
        currentState == m_currentState[t]
    IN
    /\ th[c].pc = "rsc_lock"
    /\ m_stateMutex[t] = NoThread
    /\ IF ns = "ABORT"
       THEN LET k == cancelCurrentToken(t, m_currentCancellationToken, tokenCancelled)
            IN /\ m_currentCancellationToken' = k[1]
               /\ tokenCancelled' = k[2]
               /\ m_stateMutex' = [m_stateMutex EXCEPT ![t] = c]
               /\ th' = [th EXCEPT ![c].pc = "abort_set"]
       ELSE IF ~isValidTransition(currentState, ns)
       THEN /\ th' = [th EXCEPT ![c] = Returned(th[c], FALSE, "InvalidTransition")]
            /\ UNCHANGED <<m_currentCancellationToken, tokenCancelled, m_stateMutex>>
       ELSE /\ m_currentCancellationToken' =
                  [m_currentCancellationToken EXCEPT ![t] = <<"tok", c>>]
            /\ m_stateMutex' = [m_stateMutex EXCEPT ![t] = c]
            /\ th' = [th EXCEPT ![c].pc =
                        CASE ns = "OFF"    -> "off_set"
                          [] ns = "ON"     -> "poc_set"
                          [] ns = "LAUNCH" -> "launch_set"]
                        \* the switch's default branch is dead: the transition
                        \* map holds no other target
            /\ UNCHANGED tokenCancelled
    /\ UNCHANGED <<tubeVars, m_targetInfoMap, m_currentState, m_launched, m_fireSolutionReady, mgr, tick>>
    /\ History

\* WeaponBase::processAbort: cancel again, commit ABORT, return success.
processAbort(c) ==
    LET t == th[c].tube
        k == cancelCurrentToken(t, m_currentCancellationToken, tokenCancelled)
    IN
    /\ th[c].pc = "abort_set"
    /\ m_currentCancellationToken' = k[1]
    /\ tokenCancelled' = k[2]
    /\ m_currentState' = setState(t, "ABORT")
    /\ m_stateMutex' = [m_stateMutex EXCEPT ![t] = NoThread]
    /\ th' = [th EXCEPT ![c] = Returned(th[c], TRUE, "none")]
    /\ UNCHANGED <<tubeVars, m_targetInfoMap, m_launched, m_fireSolutionReady, mgr, tick>>
    /\ History

\* WeaponBase::processTurnOff: cancel the current token (the caller's own by
\* now), commit OFF, return success.
processTurnOff(c) ==
    LET t == th[c].tube
        k == cancelCurrentToken(t, m_currentCancellationToken, tokenCancelled)
    IN
    /\ th[c].pc = "off_set"
    /\ m_currentCancellationToken' = k[1]
    /\ tokenCancelled' = k[2]
    /\ m_currentState' = setState(t, "OFF")
    /\ m_stateMutex' = [m_stateMutex EXCEPT ![t] = NoThread]
    /\ th' = [th EXCEPT ![c] = Returned(th[c], TRUE, "none")]
    /\ UNCHANGED <<tubeVars, m_targetInfoMap, m_launched, m_fireSolutionReady, mgr, tick>>
    /\ History

\* WeaponBase::sleepWithCancellationCheck, the test made before each slice.
pollCancelled(c) ==
    tokenCancelled[c] \/ currentTokenCancelled(th[c].tube)

\* WeaponBase::processTurnOn, line 191: commit POC and start the wait.
processTurnOnBegin(c) ==
    LET t == th[c].tube IN
    /\ th[c].pc = "poc_set"
    /\ m_currentState' = setState(t, "POC")
    /\ th' = [th EXCEPT ![c].pc = "poc_wait", ![c].slice = 0]
    /\ UNCHANGED <<tubeVars, m_targetInfoMap, m_launched, m_fireSolutionReady, m_stateMutex,
                   m_currentCancellationToken, tokenCancelled, mgr, tick>>
    /\ History

\* One round of the power-on wait: poll the tokens, then sleep one slice; a
\* cancelled poll reverts to OFF and reports Cancelled.
processTurnOnPoll(c) ==
    LET t == th[c].tube IN
    /\ th[c].pc = "poc_wait"
    /\ th[c].slice < PocSlices
    /\ IF pollCancelled(c)
       THEN /\ m_currentState' = setState(t, "OFF")
            /\ m_stateMutex' = [m_stateMutex EXCEPT ![t] = NoThread]
            /\ th' = [th EXCEPT ![c] = Returned(th[c], FALSE, "Cancelled")]
       ELSE /\ th' = [th EXCEPT ![c].slice = @ + 1]
            /\ UNCHANGED <<m_currentState, m_stateMutex>>
    /\ UNCHANGED <<tubeVars, m_targetInfoMap, m_launched, m_fireSolutionReady,
                   m_currentCancellationToken, tokenCancelled, mgr, tick>>
    /\ History

\* The wait returned true (every slice slept): commit ON, return success.
processTurnOnEnd(c) ==
    LET t == th[c].tube IN
    /\ th[c].pc = "poc_wait"
    /\ th[c].slice = PocSlices
    /\ m_currentState' = setState(t, "ON")
    /\ m_stateMutex' = [m_stateMutex EXCEPT ![t] = NoThread]
    /\ th' = [th EXCEPT ![c] = Returned(th[c], TRUE, "none")]
    /\ UNCHANGED <<tubeVars, m_targetInfoMap, m_launched, m_fireSolutionReady,
                   m_currentCancellationToken, tokenCancelled, mgr, tick>>
    /\ History

\* WeaponBase::processLaunch, line 223: commit LAUNCH and start step 1.
processLaunchBegin(c) ==
    LET t == th[c].tube IN
    /\ th[c].pc = "launch_set"
    /\ m_currentState' = setState(t, "LAUNCH")
    /\ th' = [th EXCEPT ![c].pc = "launch_run", ![c].step = 1, ![c].slice = 0]
    /\ UNCHANGED <<tubeVars, m_targetInfoMap, m_launched, m_fireSolutionReady, m_stateMutex,
                   m_currentCancellationToken, tokenCancelled, mgr, tick>>
    /\ History

\* One round of a launch step: the test of line 229 (first round of a step)
\* or of line 267, then one slice of sleep.  A cancelled poll commits ABORT
\* and reports Aborted.  After the last slice of a step the next step starts;
\* after the last slice of the last step the sequence is complete.
processLaunchPoll(c) ==
    LET t == th[c].tube
        lastSlice == th[c].slice + 1 = StepSlices
    IN
    /\ th[c].pc = "launch_run"
    /\ th[c].slice < StepSlices
    /\ IF pollCancelled(c)
       THEN /\ m_currentState' = setState(t, "ABORT")
            /\ m_stateMutex' = [m_stateMutex EXCEPT ![t] = NoThread]
            /\ th' = [th EXCEPT ![c] = Returned(th[c], FALSE, "Aborted")]
       ELSE /\ th' = [th EXCEPT ![c].slice = IF lastSlice /\ th[c].step < NumLaunchSteps
                                              THEN 0 ELSE @ + 1,
                                ![c].step = IF lastSlice /\ th[c].step < NumLaunchSteps
                                             THEN @ + 1 ELSE @]
            /\ UNCHANGED <<m_currentState, m_stateMutex>>
    /\ UNCHANGED <<tubeVars, m_targetInfoMap, m_launched, m_fireSolutionReady,
                   m_currentCancellationToken, tokenCancelled, mgr, tick>>
    /\ History

\* A setLaunched that commits POST_LAUNCH without storing the flag.
setLaunched_StateOnly(t) ==
    <<m_launched, setState(t, "POST_LAUNCH"), [mgr EXCEPT ![t].launched = TRUE], TRUE>>

\* WeaponBase::setLaunched(true) as processLaunch calls it: exchange
\* m_launched; only if the value changed, notify the launch observers
\* (LaunchTube::onLaunchStatusChanged tells the manager) and commit
\* POST_LAUNCH.  <<launched', state', mgr', notified>>.
setLaunched(t) ==
    IF m_launched[t] # TRUE
    THEN <<[m_launched EXCEPT ![t] = TRUE], setState(t, "POST_LAUNCH"),
           [mgr EXCEPT ![t].launched = TRUE], TRUE>>
    ELSE <<[m_launched EXCEPT ![t] = TRUE], m_currentState, mgr, FALSE>>

\* WeaponBase::processLaunch, lines 244-248: all steps done.
processLaunchEnd(c) ==
    LET t == th[c].tube
        r == setLaunched(t)
    IN
    /\ th[c].pc = "launch_run"
    /\ th[c].slice = StepSlices
    /\ m_launched' = r[1]
    /\ m_currentState' = r[2]
    /\ mgr' = r[3]
    /\ m_stateMutex' = [m_stateMutex EXCEPT ![t] = NoThread]
    /\ th' = [th EXCEPT ![c] = [Returned(th[c], TRUE, "none") EXCEPT !.noted = r[4]]]
    /\ UNCHANGED <<tubeVars, m_targetInfoMap, m_fireSolutionReady, m_currentCancellationToken,
                   tokenCancelled, tick>>
    /\ History

\* Whoever holds the token of a command in flight cancels it.
CancelToken(c) ==
    /\ th[c].pc \notin {"idle", "ret"}
    /\ th[c].caller = "cmd"
    /\ th[c].newState \in TokenReaders
    /\ ~tokenCancelled[c]
    /\ tokenCancelled' = [tokenCancelled EXCEPT ![c] = TRUE]
    /\ UNCHANGED <<tubeVars, m_targetInfoMap, weaponVars, mgr, th, tick>>
    /\ History

\* The caller has its result; the request and its token go out of scope.
Ack(c) ==
    /\ th[c].pc = "ret"
    /\ m_currentCancellationToken' = dropToken(c, m_currentCancellationToken)
    /\ tokenCancelled' = [tokenCancelled EXCEPT ![c] = FALSE]
    /\ th' = [th EXCEPT ![c] = IdleThread]
    /\ UNCHANGED <<tubeVars, m_targetInfoMap, m_currentState, m_launched, m_fireSolutionReady,
                   m_stateMutex, mgr, tick>>
    /\ History

\* -------------------------------------------------- the engagement manager
\* MissileEngagementManagerBase / MineEngagementManagerBase
\* ::calculateEngagementPlan with the concrete calculateTrajectory:
\* <<manager after the call, whether it returned success>>.
mgrCalculateEngagementPlan(m) ==
    IF m.kind \in MissileKinds
    THEN IF ~m.hasValidTarget
         THEN <<[m EXCEPT !.isValid = FALSE], FALSE>>
         ELSE <<[m EXCEPT !.isValid = m.hasValidTarget], TRUE>>
    ELSE <<[m EXCEPT !.isValid = TRUE, !.trajectory = m.waypoints], TRUE>>

\* MissileEngagementManagerBase::setTargetPosition:
\* <<manager after the call, whether it returned success>>.
setTargetPosition(m) ==
    mgrCalculateEngagementPlan([m EXCEPT !.systemTargetId = 0, !.hasValidTarget = TRUE])

\* MissileEngagementManagerBase::setSystemTarget.
setSystemTarget(m, id) ==
    <<[m EXCEPT !.systemTargetId = id, !.hasValidTarget = FALSE], TRUE>>

\* MissileEngagementManagerBase::updateWaypoints and
\* MineEngagementManagerBase::updateDropPlanWaypoints with a list of n
\* waypoints: <<manager after the call, whether it returned success>>.
MaxWaypoints == 8

mgrUpdateWaypoints(m, n) ==
    IF n > MaxWaypoints THEN <<m, FALSE>>
    ELSE IF m.kind \in MissileKinds
    THEN mgrCalculateEngagementPlan([m EXCEPT !.waypoints = n])
    ELSE mgrCalculateEngagementPlan([m EXCEPT !.waypoints = n, !.dropPlanWaypoints = n])

\* LaunchTube::updateWaypoints: the manager is chosen by the kind in the
\* tube's assignment information and must be of that family.
\* <<mgr', whether it returned success>>.
updateWaypoints(t, n) ==
    IF ~hasWeapon(t) THEN <<mgr, FALSE>>
    ELSE IF m_engagementMgr[t] = NoWeapon THEN <<mgr, FALSE>>
    ELSE IF (m_assignmentInfo[t].weaponKind = "M_MINE") # (mgr[t].kind = "M_MINE")
    THEN <<mgr, FALSE>>
    ELSE LET r == mgrUpdateWaypoints(mgr[t], n)
         IN <<[mgr EXCEPT ![t] = r[1]], r[2]>>

\* LaunchTube::calculateEngagementPlan: on success the manager's validity is
\* pushed into the weapon's fire_solution_ready.
\* <<mgr', m_fireSolutionReady', result>>.
calculateEngagementPlan(t) ==
    IF ~hasWeapon(t)
    THEN <<mgr, m_fireSolutionReady, FALSE>>
    ELSE LET r == mgrCalculateEngagementPlan(mgr[t])
         IN <<[mgr EXCEPT ![t] = r[1]],
              IF r[2] THEN [m_fireSolutionReady EXCEPT ![t] = r[1].isValid]
                      ELSE m_fireSolutionReady,
              r[2]>>

\* ---------------------------------------------------------- the tick thread
\* The rest of LaunchTube::update after the weapon's update: the manager's
\* update and, before launch only, the recomputation of the plan.
\* <<mgr', m_fireSolutionReady'>>.
updateRest(t) ==
    IF ~m_launched[t]
    THEN LET r == calculateEngagementPlan(t) IN <<r[1], r[2]>>
    ELSE <<mgr, m_fireSolutionReady>>

TickNext(q) ==
    IF Len(q) > 1 THEN [IdleTick EXCEPT !.pc = "t_load", !.todo = Tail(q)]
    ELSE IdleTick

\* LaunchTubeManager::update: the snapshot of the assigned tubes.
TickBegin ==
    /\ tick.pc = "idle"
    /\ \E t \in Tubes : hasWeapon(t)
    /\ tick' = [IdleTick EXCEPT !.pc = "t_load",
                                !.todo = Ascending({t \in Tubes : hasWeapon(t)})]
    /\ UNCHANGED <<tubeVars, m_targetInfoMap, weaponVars, tokenCancelled, mgr, th>>
    /\ History

\* LaunchTube::update on the next tube: WeaponBase::update loads the state
\* (line 148).  In a state other than ON and RTL the weapon's update does
\* nothing more and the rest of the tube's update follows.
TickLoad ==
    LET t == Head(tick.todo)
        currentState == m_currentState[t]
        r == updateRest(t)
    IN
    /\ tick.pc = "t_load"
    /\ IF ~hasWeapon(t)
       THEN /\ tick' = TickNext(tick.todo)
            /\ UNCHANGED <<mgr, m_fireSolutionReady, th>>
       ELSE IF currentState \in {"ON", "RTL"}
       THEN /\ tick' = [tick EXCEPT !.pc = "t_check", !.seen = currentState]
            /\ UNCHANGED <<mgr, m_fireSolutionReady, th>>
       ELSE IF m_engagementMgr[t] = NoWeapon
       THEN /\ tick' = CrashedTick
            /\ th' = CrashedThreads
            /\ UNCHANGED <<mgr, m_fireSolutionReady>>
       ELSE /\ tick' = TickNext(tick.todo)
            /\ mgr' = r[1]
            /\ m_fireSolutionReady' = r[2]
            /\ UNCHANGED th
    /\ UNCHANGED <<tubeVars, m_targetInfoMap, m_currentState, m_launched, m_stateMutex,
                   m_currentCancellationToken, tokenCancelled>>
    /\ History

\* WeaponBase::update, lines 154-165: the state to commit, given the state
\* loaded and the interlock read now; the state loaded when none.
updateTarget(seen, interlock) ==
    IF seen = "ON" /\ interlock THEN "RTL"
    ELSE IF seen = "RTL" /\ ~interlock THEN "ON"
    ELSE seen

\* WeaponBase::update reads the interlock (lines 155, 161).
TickCheck ==
    LET t == Head(tick.todo)
        to == updateTarget(tick.seen, checkInterlockConditions(t))
        r == updateRest(t)
    IN
    /\ tick.pc = "t_check"
    /\ IF to # tick.seen
       THEN /\ tick' = [tick EXCEPT !.pc = "t_set", !.next = to]
            /\ UNCHANGED <<mgr, m_fireSolutionReady, th>>
       ELSE IF m_engagementMgr[t] = NoWeapon
       THEN /\ tick' = CrashedTick
            /\ th' = CrashedThreads
            /\ UNCHANGED <<mgr, m_fireSolutionReady>>
       ELSE /\ tick' = TickNext(tick.todo)
            /\ mgr' = r[1]
            /\ m_fireSolutionReady' = r[2]
            /\ UNCHANGED th
    /\ UNCHANGED <<tubeVars, m_targetInfoMap, m_currentState, m_launched, m_stateMutex,
                   m_currentCancellationToken, tokenCancelled>>
    /\ History

\* WeaponBase::update commits the auto-transition (lines 157, 163).
TickSet ==
    LET t == Head(tick.todo) IN
    /\ tick.pc = "t_set"
    /\ m_currentState' = setState(t, tick.next)
    /\ tick' = [tick EXCEPT !.pc = "t_plan"]
    /\ UNCHANGED <<tubeVars, m_targetInfoMap, m_launched, m_fireSolutionReady, m_stateMutex,
                   m_currentCancellationToken, tokenCancelled, mgr, th>>
    /\ History

\* The rest of LaunchTube::update after an auto-transition.
TickPlan ==
    LET t == Head(tick.todo)
        r == updateRest(t)
    IN
    /\ tick.pc = "t_plan"
    /\ IF m_engagementMgr[t] = NoWeapon
       THEN /\ tick' = CrashedTick
            /\ th' = CrashedThreads
            /\ UNCHANGED <<mgr, m_fireSolutionReady>>
       ELSE /\ mgr' = r[1]
            /\ m_fireSolutionReady' = r[2]
            /\ tick' = TickNext(tick.todo)
            /\ UNCHANGED th
    /\ UNCHANGED <<tubeVars, m_targetInfoMap, m_currentState, m_launched, m_stateMutex,
                   m_currentCancellationToken, tokenCancelled>>
    /\ History

\* ------------------------------------------------------------ environment
\* IWeapon::setFireSolutionReady called from outside the tube.
SetFireSolutionReady(t, ready) ==
    /\ hasWeapon(t)
    /\ m_fireSolutionReady[t] # ready
    /\ m_fireSolutionReady' = [m_fireSolutionReady EXCEPT ![t] = ready]
    /\ UNCHANGED <<tubeVars, m_targetInfoMap, m_currentState, m_launched, m_stateMutex,
                   m_currentCancellationToken, tokenCancelled, mgr, th, tick>>
    /\ History

\* An updateTargetInfo that takes the track of any target once a system
\* target is selected.
mgrUpdateTargetInfo_AnyTrack(m, id) ==
    IF m.kind \in MissileKinds /\ m.systemTargetId # 0
    THEN mgrCalculateEngagementPlan([m EXCEPT !.hasValidTarget = TRUE])[1]
    ELSE m

\* MissileEngagementManagerBase::updateTargetInfo on one manager.
mgrUpdateTargetInfo(m, id) ==
    IF m.kind \in MissileKinds /\ m.systemTargetId # 0 /\ id = m.systemTargetId
    THEN mgrCalculateEngagementPlan([m EXCEPT !.hasValidTarget = TRUE])[1]
    ELSE m

\* LaunchTubeManager::updateTargetInfo: store the track in the registry and
\* fan it out to the assigned tubes.
UpdateTargetInfo(id) ==
    /\ m_targetInfoMap' = m_targetInfoMap \cup {id}
    /\ mgr' = [t \in Tubes |->
                 IF hasWeapon(t) /\ m_engagementMgr[t] # NoWeapon
                 THEN mgrUpdateTargetInfo(mgr[t], id)
                 ELSE mgr[t]]
    /\ <<m_targetInfoMap', mgr'>> # <<m_targetInfoMap, mgr>>
    /\ UNCHANGED <<tubeVars, weaponVars, tokenCancelled, th, tick>>
    /\ History

\* ------------------------------------------------------------ weapon unit
\* The weapon of tube 1 right after a successful assignment of a missile to
\* a system target whose track has not arrived; every other tube is empty.
AssignedInfo(t, kind, id, by) ==
    [DefaultAssignmentInfo EXCEPT !.tubeNumber = t, !.weaponKind = kind,
                                  !.systemTargetId = id, !.by = by]

Init ==
    /\ m_weapon = [t \in Tubes |-> IF t = 1 THEN "c1" ELSE NoWeapon]
    /\ m_engagementMgr = [t \in Tubes |-> IF t = 1 THEN "c1" ELSE NoWeapon]
    /\ m_assignmentInfo = [t \in Tubes |->
           IF t = 1 THEN AssignedInfo(1, "ALM", 1, "c1") ELSE DefaultAssignmentInfo]
    /\ m_currentState = [t \in Tubes |-> "OFF"]
    /\ m_launched = [t \in Tubes |-> FALSE]
    /\ m_fireSolutionReady = [t \in Tubes |-> FALSE]
    /\ m_stateMutex = [t \in Tubes |-> NoThread]
    /\ m_currentCancellationToken = [t \in Tubes |-> <<"own", IF t = 1 THEN TRUE ELSE FALSE>>]
    /\ tokenCancelled = [c \in Threads |-> FALSE]
    /\ mgr = [t \in Tubes |->
           IF t = 1 THEN [FreshManager EXCEPT !.kind = "ALM", !.systemTargetId = 1]
           ELSE FreshManager]
    /\ th = [c \in Threads |-> IdleThread]
    /\ m_targetInfoMap = {}
    /\ tick = IdleTick
    /\ readyInOn = [t \in Tubes |-> FALSE]
    /\ clearedFrom = [t \in Tubes |-> "OFF"]
    /\ callLog = <<>>
    /\ metRunning = [c \in Threads |-> FALSE]
    /\ ServicesInit
    /\ delivered = NoNote

\* The targets a command asks for: the four of the command surface and an
\* internal one (RTL), which no row of the transition map holds.
CommandStates == {"OFF", "ON", "LAUNCH", "ABORT", "RTL"}
TargetIds == {1}

RequestStep(c) ==
    \/ requestStateChange(c)
    \/ processAbort(c)
    \/ processTurnOff(c)
    \/ processTurnOnBegin(c)
    \/ processTurnOnPoll(c)
    \/ processTurnOnEnd(c)
    \/ processLaunchBegin(c)
    \/ processLaunchPoll(c)
    \/ processLaunchEnd(c)

WeaponStep(c) ==
    \/ RequestStep(c)
    \/ CancelToken(c)
    \/ Ack(c)

TickStep == TickBegin \/ TickLoad \/ TickCheck \/ TickSet \/ TickPlan

UnitStep ==
    \/ \E c \in Threads, ns \in CommandStates, pre \in BOOLEAN : RequestBegin(c, 1, ns, pre)
    \/ \E c \in Threads : WeaponStep(c)
    \/ TickStep
    \/ \E ready \in BOOLEAN : SetFireSolutionReady(1, ready)
    \/ \E id \in TargetIds : UpdateTargetInfo(id)

Next == UnitStep

Spec == Init /\ [][Next]_vars

\* ------------------------------------------------------- emergency stop
\* LaunchTubeManager::emergencyStop, line 319: the snapshot of the assigned
\* tubes.
EmergencyStopBegin(c) ==
    /\ th[c].pc = "idle"
    /\ th' = [th EXCEPT ![c] = [IdleThread EXCEPT
                  !.pc = "es_next", !.caller = "estop",
                  !.todo = Ascending({t \in Tubes : hasWeapon(t)})]]
    /\ UNCHANGED <<tubeVars, m_targetInfoMap, weaponVars, tokenCancelled, mgr, tick>>
    /\ History

\* LaunchTubeManager::requestAllWeaponStateChange, lines 287-289: the
\* snapshot of the assigned tubes; the loop asks newState of each of them.
RequestAllBegin(c, newState) ==
    /\ th[c].pc = "idle"
    /\ th' = [th EXCEPT ![c] = [IdleThread EXCEPT
                  !.pc = "es_next", !.caller = "all", !.newState = newState,
                  !.todo = Ascending({t \in Tubes : hasWeapon(t)})]]
    /\ UNCHANGED <<tubeVars, m_targetInfoMap, weaponVars, tokenCancelled, mgr, tick>>
    /\ History

\* The target emergencyStop asks of a tube whose state it read (lines 327-329).
emergencyTarget(currentState) ==
    IF currentState = "LAUNCH" THEN "ABORT" ELSE "OFF"

\* One round of the loop, lines 324-337: read the tube's state, choose the
\* target, make a fresh token (cancelled at once for ABORT) and enter
\* LaunchTube::requestWeaponStateChange.  The token of the round before is
\* gone by now.  A round of requestAllWeaponStateChange (lines 291-292) asks
\* the state it was called with, under a default token.
EmergencyStopIssue(c) ==
    LET t == Head(th[c].todo)
        targetState ==
            IF th[c].caller = "all"
            THEN th[c].newState
            ELSE emergencyTarget(IF hasWeapon(t) THEN m_currentState[t] ELSE "OFF")
    IN
    /\ th[c].pc = "es_next"
    /\ th[c].todo # <<>>
    /\ m_currentCancellationToken' = dropToken(c, m_currentCancellationToken)
    /\ tokenCancelled' = [tokenCancelled EXCEPT
                              ![c] = (th[c].caller = "estop" /\ targetState = "ABORT")]
    /\ IF hasWeapon(t)
       THEN th' = [th EXCEPT ![c].pc = "rsc_lock", ![c].tube = t,
                             ![c].newState = targetState]
       ELSE th' = [th EXCEPT ![c] = Returned([th[c] EXCEPT !.tube = t,
                                                           !.newState = targetState],
                                             FALSE, "NotAssigned")]
    /\ UNCHANGED <<tubeVars, m_targetInfoMap, m_currentState, m_launched,
                   m_fireSolutionReady, m_stateMutex, mgr, tick>>
    /\ History

\* Lines 344-349: the loop is over; success only if every request succeeded.
EmergencyStopEnd(c) ==
    /\ th[c].pc = "es_next"
    /\ th[c].todo = <<>>
    /\ th' = [th EXCEPT ![c].pc = "ret", ![c].ok = th[c].allSuccess]
    /\ UNCHANGED <<tubeVars, m_targetInfoMap, weaponVars, tokenCancelled, mgr, tick>>
    /\ History

EmergencyStopStep(c) ==
    \/ EmergencyStopBegin(c)
    \/ EmergencyStopIssue(c)
    \/ EmergencyStopEnd(c)

\* Two tubes, each holding a missile assigned to system target 1 whose track
\* is known and whose plan the tick has computed once; all weapons OFF.
InitAssigned ==
    /\ m_weapon = [t \in Tubes |-> "c1"]
    /\ m_engagementMgr = [t \in Tubes |-> "c1"]
    /\ m_assignmentInfo = [t \in Tubes |-> AssignedInfo(t, "ALM", 1, "c1")]
    /\ m_currentState = [t \in Tubes |-> "OFF"]
    /\ m_launched = [t \in Tubes |-> FALSE]
    /\ m_fireSolutionReady = [t \in Tubes |-> TRUE]
    /\ m_stateMutex = [t \in Tubes |-> NoThread]
    /\ m_currentCancellationToken = [t \in Tubes |-> <<"own", TRUE>>]
    /\ tokenCancelled = [c \in Threads |-> FALSE]
    /\ mgr = [t \in Tubes |->
           [FreshManager EXCEPT !.kind = "ALM", !.systemTargetId = 1,
                                !.hasValidTarget = TRUE, !.isValid = TRUE]]
    /\ m_targetInfoMap = {1}
    /\ th = [c \in Threads |-> IdleThread]
    /\ tick = IdleTick
    /\ readyInOn = [t \in Tubes |-> FALSE]
    /\ clearedFrom = [t \in Tubes |-> "OFF"]
    /\ callLog = <<>>
    /\ metRunning = [c \in Threads |-> FALSE]
    /\ ServicesInit
    /\ delivered = NoCallback

\* The operator thread commands the tubes and lets its commands run; the
\* other thread is the one that calls emergencyStop.
Operator == "c1"
Stopper == "c2"
OperatorStates == {"OFF", "ON", "LAUNCH", "ABORT"}

StopStep ==
    \/ \E t \in Tubes, ns \in OperatorStates : RequestBegin(Operator, t, ns, FALSE)
    \/ EmergencyStopStep(Stopper)
    \/ \E c \in Threads : RequestStep(c) \/ Ack(c)
    \/ TickStep

NextStop == StopStep

SpecEStop == InitAssigned /\ [][NextStop]_vars

\* ------------------------------------------------ assignment of a tube
\* The fields of a weapon as its constructor leaves them, put in tube t's
\* place: <<m_currentState', m_launched', m_fireSolutionReady', m_stateMutex',
\* m_currentCancellationToken'>>.
constructedWeapon(t) ==
    <<[m_currentState EXCEPT ![t] = "OFF"],
      [m_launched EXCEPT ![t] = FALSE],
      [m_fireSolutionReady EXCEPT ![t] = FALSE],
      [m_stateMutex EXCEPT ![t] = NoThread],
      [m_currentCancellationToken EXCEPT ![t] = <<"own", FALSE>>]>>

\* A reset() that leaves the weapon as it is.
reset_Skipped(t) ==
    <<m_currentState, m_launched, m_fireSolutionReady, m_currentCancellationToken,
      tokenCancelled>>

\* WeaponBase::reset on the weapon of tube t (the state mutex is taken and
\* released within): <<m_currentState', m_launched', m_fireSolutionReady',
\* m_currentCancellationToken', tokenCancelled'>>.
reset(t) ==
    LET k == cancelCurrentToken(t, m_currentCancellationToken, tokenCancelled) IN
    <<[m_currentState EXCEPT ![t] = "OFF"],
      [m_launched EXCEPT ![t] = FALSE],
      [m_fireSolutionReady EXCEPT ![t] = FALSE],
      k[1], k[2]>>

\* WeaponFactory::isWeaponSupported: the kinds with a registered creator.
isWeaponSupported(kind) == kind \in WeaponKinds

\* LaunchTubeManager::assignWeapon, lines 184-199: tube lookup, the
\* coordinator's occupancy check and the creation of weapon and manager.
AssignBegin(c, n, kind, info) ==
    LET t == getValidatedTube(n) IN
    /\ th[c].pc = "idle"
    /\ th' = [th EXCEPT ![c] =
                 [IdleThread EXCEPT
                     !.caller = "assign", !.tube = t, !.asked = n,
                     !.info = IF t = NoTube \/ hasWeapon(t)
                                 \/ ~isWeaponSupported(kind)
                              THEN DefaultAssignmentInfo ELSE info,
                     !.kind = IF t = NoTube \/ hasWeapon(t)
                                 \/ ~isWeaponSupported(kind)
                              THEN "NA" ELSE kind,
                     !.pc = IF t = NoTube \/ hasWeapon(t)
                               \/ ~isWeaponSupported(kind)
                            THEN "ret" ELSE "as_check",
                     !.why = IF t = NoTube THEN "InvalidTube"
                             ELSE IF hasWeapon(t) THEN "AlreadyAssigned"
                             ELSE IF ~isWeaponSupported(kind) THEN "CreateFailed"
                             ELSE "none"]]
    /\ UNCHANGED <<tubeVars, m_targetInfoMap, weaponVars, tokenCancelled, mgr, tick>>
    /\ History

\* LaunchTube::assignWeapon, lines 128-138: the tube's own checks.
AssignCheck(c) ==
    LET t == th[c].tube IN
    /\ th[c].pc = "as_check"
    /\ th' = [th EXCEPT ![c].pc = IF hasWeapon(t) \/ th[c].info.tubeNumber # t
                                   THEN "ret" ELSE "as_weapon",
                        ![c].info = IF hasWeapon(t) \/ th[c].info.tubeNumber # t
                                    THEN DefaultAssignmentInfo ELSE @,
                        ![c].kind = IF hasWeapon(t) \/ th[c].info.tubeNumber # t
                                    THEN "NA" ELSE @,
                        ![c].why = IF hasWeapon(t) THEN "AlreadyAssigned"
                                   ELSE IF th[c].info.tubeNumber # t THEN "TubeMismatch"
                                   ELSE "none"]
    /\ UNCHANGED <<tubeVars, m_targetInfoMap, weaponVars, tokenCancelled, mgr, tick>>
    /\ History

\* Line 141: the tube takes the new weapon; whatever weapon it held is gone.
AssignStoreWeapon(c) ==
    LET t == th[c].tube
        w == constructedWeapon(t)
    IN
    /\ th[c].pc = "as_weapon"
    /\ m_weapon' = [m_weapon EXCEPT ![t] = c]
    /\ m_currentState' = w[1]
    /\ m_launched' = w[2]
    /\ m_fireSolutionReady' = w[3]
    /\ m_stateMutex' = w[4]
    /\ m_currentCancellationToken' = w[5]
    /\ th' = [th EXCEPT ![c].pc = "as_manager"]
    /\ UNCHANGED <<m_engagementMgr, m_assignmentInfo, m_targetInfoMap, tokenCancelled,
                   mgr, tick>>
    /\ History

\* Line 142: the tube takes the new engagement manager.
AssignStoreManager(c) ==
    LET t == th[c].tube IN
    /\ th[c].pc = "as_manager"
    /\ m_engagementMgr' = [m_engagementMgr EXCEPT ![t] = c]
    /\ mgr' = [mgr EXCEPT ![t] = [FreshManager EXCEPT !.kind = th[c].kind]]
    /\ th' = [th EXCEPT ![c].pc = "as_info"]
    /\ UNCHANGED <<m_weapon, m_assignmentInfo, m_targetInfoMap, weaponVars,
                   tokenCancelled, tick>>
    /\ History

\* Line 143: the tube takes the assignment information.
AssignStoreInfo(c) ==
    LET t == th[c].tube IN
    /\ th[c].pc = "as_info"
    /\ m_assignmentInfo' = [m_assignmentInfo EXCEPT ![t] = th[c].info]
    /\ th' = [th EXCEPT ![c].pc = "as_init"]
    /\ UNCHANGED <<m_weapon, m_engagementMgr, m_targetInfoMap, weaponVars,
                   tokenCancelled, mgr, tick>>
    /\ History

\* LaunchTube::setupMineSpecificAssignment / setupMissileSpecificAssignment on
\* the tube's manager m and the tube's assignment information a, chosen by
\* the kind of the request: <<manager after the call, whether it succeeded>>.
setupSpecificAssignment(kind, m, a) ==
    IF kind = "M_MINE"
    THEN IF m.kind # "M_MINE" THEN <<m, FALSE>>
         ELSE IF a.dropPlanListNumber > 0 /\ a.dropPlanNumber > 0
         THEN <<[m EXCEPT !.dropPlanNumber = a.dropPlanNumber], TRUE>>
         ELSE <<m, TRUE>>
    ELSE IF m.kind \notin MissileKinds THEN <<m, FALSE>>
         ELSE IF a.systemTargetId > 0
         THEN setSystemTarget(m, a.systemTargetId)
         ELSE setTargetPosition(m)

\* Lines 146-178: initialize the weapon and the manager the tube holds now,
\* register the observer and run the kind's set-up on the tube's manager and
\* assignment information.  A failed set-up goes on to clearAssignment.  With
\* the weapon or the manager pointer null by now the call dereferences null:
\* the process is gone, no thread takes a further step.
AssignInitialize(c) ==
    LET t == th[c].tube
        w == reset(t)
        r == setupSpecificAssignment(th[c].info.weaponKind,
                 [mgr[t] EXCEPT !.launched = FALSE, !.isValid = FALSE],
                 m_assignmentInfo[t])
    IN
    /\ th[c].pc = "as_init"
    /\ IF m_weapon[t] = NoWeapon \/ m_engagementMgr[t] = NoWeapon
       THEN /\ th' = CrashedThreads
            /\ tick' = CrashedTick
            /\ UNCHANGED <<weaponVars, tokenCancelled, mgr>>
       ELSE /\ m_stateMutex[t] = NoThread
            /\ m_currentState' = w[1]
            /\ m_launched' = w[2]
            /\ m_fireSolutionReady' = w[3]
            /\ m_currentCancellationToken' = w[4]
            /\ tokenCancelled' = w[5]
            /\ mgr' = [mgr EXCEPT ![t] = r[1]]
            /\ th' = [th EXCEPT ![c].pc = IF r[2] THEN "as_env" ELSE "cl_reset",
                                ![c].why = IF r[2] THEN "none" ELSE "SetupFailed",
                                ![c].info = IF r[2] THEN @ ELSE DefaultAssignmentInfo,
                                ![c].kind = IF r[2] THEN @ ELSE "NA"]
            /\ UNCHANGED <<m_stateMutex, tick>>
    /\ UNCHANGED <<tubeVars, m_targetInfoMap>>
    /\ History

\* LaunchTubeManager::assignWeapon, lines 207-231: push the environment down;
\* a known track of the requested target goes to the tube's manager.
AssignEnvironment(c) ==
    LET t == th[c].tube
        targetId == th[c].info.systemTargetId
    IN
    /\ th[c].pc = "as_env"
    /\ mgr' = IF targetId > 0 /\ targetId \in m_targetInfoMap
                 /\ m_engagementMgr[t] # NoWeapon
              THEN [mgr EXCEPT ![t] = mgrUpdateTargetInfo(mgr[t], targetId)]
              ELSE mgr
    /\ th' = [th EXCEPT ![c].pc = "ret", ![c].ok = TRUE,
                        ![c].info = DefaultAssignmentInfo, ![c].kind = "NA"]
    /\ UNCHANGED <<tubeVars, m_targetInfoMap, weaponVars, tokenCancelled, tick>>
    /\ History

\* LaunchTubeManager::unassignWeapon, lines 235-244: tube lookup, occupancy
\* check and the read of the weapon's kind.
UnassignBegin(c, n) ==
    LET t == getValidatedTube(n) IN
    /\ th[c].pc = "idle"
    /\ th' = [th EXCEPT ![c] =
                 [IdleThread EXCEPT
                     !.caller = "unassign", !.tube = t, !.asked = n,
                     !.pc = IF t = NoTube \/ ~hasWeapon(t) THEN "ret" ELSE "cl_reset",
                     !.why = IF t = NoTube THEN "InvalidTube"
                             ELSE IF ~hasWeapon(t) THEN "NotAssigned" ELSE "none"]]
    /\ UNCHANGED <<tubeVars, m_targetInfoMap, weaponVars, tokenCancelled, mgr, tick>>
    /\ History

\* LaunchTube::clearAssignment, lines 182-189: reset the weapon and the
\* manager, each if the tube holds one.
clearReset(c) ==
    LET t == th[c].tube
        w == reset(t)
    IN
    /\ th[c].pc = "cl_reset"
    /\ IF m_weapon[t] # NoWeapon
       THEN /\ m_stateMutex[t] = NoThread
            /\ m_currentState' = w[1]
            /\ m_launched' = w[2]
            /\ m_fireSolutionReady' = w[3]
            /\ m_currentCancellationToken' = w[4]
            /\ tokenCancelled' = w[5]
       ELSE UNCHANGED <<m_currentState, m_launched, m_fireSolutionReady,
                        m_currentCancellationToken, tokenCancelled>>
    /\ mgr' = IF m_engagementMgr[t] # NoWeapon
              THEN [mgr EXCEPT ![t].launched = FALSE, ![t].isValid = FALSE,
                               ![t].waypoints = 0, ![t].trajectory = 0]
              ELSE mgr
    /\ th' = [th EXCEPT ![c].pc = "cl_weapon"]
    /\ UNCHANGED <<tubeVars, m_targetInfoMap, m_stateMutex, tick>>
    /\ History

\* A thread is inside a member function of the weapon of tube t: a command
\* in requestStateChange, or the tick in WeaponBase::update.
InsideWeapon(t) ==
    \/ \E d \in Threads :
          /\ th[d].tube = t
          /\ th[d].pc \in {"rsc_lock", "abort_set", "off_set", "poc_set", "poc_wait",
                           "launch_set", "launch_run"}
    \/ tick.pc \in {"t_check", "t_set"} /\ Head(tick.todo) = t

\* Line 191: the tube lets its weapon go, which destroys the weapon.  While
\* another thread is inside the weapon that thread goes on with a destroyed
\* object: the process faults, or it goes on and the thread's accesses land
\* where the tube's next weapon is built.
clearWeapon(c) ==
    LET t == th[c].tube
        w == constructedWeapon(t)
    IN
    /\ th[c].pc = "cl_weapon"
    /\ m_weapon' = [m_weapon EXCEPT ![t] = NoWeapon]
    /\ m_currentState' = w[1]
    /\ m_launched' = w[2]
    /\ m_fireSolutionReady' = w[3]
    /\ m_stateMutex' = w[4]
    /\ m_currentCancellationToken' = w[5]
    /\ \/ th' = [th EXCEPT ![c].pc = "cl_manager"] /\ UNCHANGED tick
       \/ InsideWeapon(t) /\ th' = CrashedThreads /\ tick' = CrashedTick
    /\ UNCHANGED <<m_engagementMgr, m_assignmentInfo, m_targetInfoMap, tokenCancelled,
                   mgr>>
    /\ History

\* Line 192: the tube lets its manager go.
clearManager(c) ==
    LET t == th[c].tube IN
    /\ th[c].pc = "cl_manager"
    /\ m_engagementMgr' = [m_engagementMgr EXCEPT ![t] = NoWeapon]
    /\ mgr' = [mgr EXCEPT ![t] = FreshManager]
    /\ th' = [th EXCEPT ![c].pc = "cl_info"]
    /\ UNCHANGED <<m_weapon, m_assignmentInfo, m_targetInfoMap, weaponVars,
                   tokenCancelled, tick>>
    /\ History

\* Line 193 and the return: the assignment information is the default again;
\* unassignWeapon reports success, a failed assignWeapon its failure.
clearInfo(c) ==
    LET t == th[c].tube IN
    /\ th[c].pc = "cl_info"
    /\ m_assignmentInfo' = [m_assignmentInfo EXCEPT ![t] = DefaultAssignmentInfo]
    /\ th' = [th EXCEPT ![c].pc = "ret", ![c].ok = (th[c].caller = "unassign")]
    /\ UNCHANGED <<m_weapon, m_engagementMgr, m_targetInfoMap, weaponVars,
                   tokenCancelled, mgr, tick>>
    /\ History

AssignStep(c) ==
    \/ AssignCheck(c)
    \/ AssignStoreWeapon(c)
    \/ AssignStoreManager(c)
    \/ AssignStoreInfo(c)
    \/ AssignInitialize(c)
    \/ AssignEnvironment(c)

ClearStep(c) ==
    \/ clearReset(c)
    \/ clearWeapon(c)
    \/ clearManager(c)
    \/ clearInfo(c)

\* The coordinator as initialize() leaves it: every tube empty, no track known.
InitEmpty ==
    /\ m_weapon = [t \in Tubes |-> NoWeapon]
    /\ m_engagementMgr = [t \in Tubes |-> NoWeapon]
    /\ m_assignmentInfo = [t \in Tubes |-> DefaultAssignmentInfo]
    /\ m_currentState = [t \in Tubes |-> "OFF"]
    /\ m_launched = [t \in Tubes |-> FALSE]
    /\ m_fireSolutionReady = [t \in Tubes |-> FALSE]
    /\ m_stateMutex = [t \in Tubes |-> NoThread]
    /\ m_currentCancellationToken = [t \in Tubes |-> <<"own", FALSE>>]
    /\ tokenCancelled = [c \in Threads |-> FALSE]
    /\ mgr = [t \in Tubes |-> FreshManager]
    /\ m_targetInfoMap = {}
    /\ th = [c \in Threads |-> IdleThread]
    /\ tick = IdleTick
    /\ readyInOn = [t \in Tubes |-> FALSE]
    /\ clearedFrom = [t \in Tubes |-> "OFF"]
    /\ callLog = <<>>
    /\ metRunning = [c \in Threads |-> FALSE]
    /\ ServicesInit
    /\ delivered = NoCallback

\* The requests of the assignment workload, <<kind of the request, its
\* information block>>.  They address tube 1 and the invalid tube number 0: a
\* missile on a system target, a missile on a position, a mine with a drop
\* plan, an unsupported kind, a missile whose information block names
\* another tube, and a missile whose information block names a mine.
RequestTubes == {0, 1}
AssignRequests(c, t) ==
    {<<"ALM", AssignedInfo(t, "ALM", 1, c)>>, <<"ALM", AssignedInfo(t, "ALM", 0, c)>>,
     <<"M_MINE", [AssignedInfo(t, "M_MINE", 0, c) EXCEPT !.dropPlanListNumber = 1,
                                                         !.dropPlanNumber = 1]>>,
     <<"NA", AssignedInfo(t, "NA", 0, c)>>, <<"ALM", AssignedInfo(t + 1, "ALM", 1, c)>>,
     <<"ALM", AssignedInfo(t, "M_MINE", 0, c)>>}

AssignNext ==
    \/ \E c \in Threads, t \in RequestTubes :
           \E r \in AssignRequests(c, t) : AssignBegin(c, t, r[1], r[2])
    \/ \E c \in Threads, t \in RequestTubes : UnassignBegin(c, t)
    \/ \E c \in Threads : AssignStep(c)
    \/ \E c \in Threads : ClearStep(c)
    \/ \E c \in Threads : Ack(c)
    \/ \E id \in TargetIds : UpdateTargetInfo(id)

SpecAssign == InitEmpty /\ [][AssignNext]_vars

\* ------------------------------------- the coordinator's per-tube calls
\* LaunchTubeManager::updateWaypoints with a list of n waypoints.
UpdateWaypoints(c, k, n) ==
    LET t == getValidatedTube(k)
        r == updateWaypoints(t, n)
    IN
    /\ th[c].pc = "idle"
    /\ IF t = NoTube
       THEN /\ th' = [th EXCEPT ![c] = [IdleThread EXCEPT
                         !.pc = "ret", !.caller = "waypoints", !.tube = t, !.asked = k,
                         !.why = "InvalidTube"]]
            /\ UNCHANGED mgr
       ELSE /\ th' = [th EXCEPT ![c] = [IdleThread EXCEPT
                         !.pc = "ret", !.caller = "waypoints", !.tube = t, !.asked = k,
                         !.step = n, !.ok = r[2],
                         !.why = IF r[2] THEN "none"
                                 ELSE IF ~hasWeapon(t) THEN "NotAssigned"
                                 ELSE IF n > MaxWaypoints THEN "TooManyWaypoints"
                                 ELSE "Failed"]]
            /\ mgr' = r[1]
    /\ UNCHANGED <<tubeVars, m_targetInfoMap, weaponVars, tokenCancelled, tick>>
    /\ History

\* LaunchTubeManager::calculateEngagementPlan.  A tube that holds a weapon
\* but no manager yet has its null manager dereferenced.
CalculatePlan(c, n) ==
    LET t == getValidatedTube(n) IN
    /\ th[c].pc = "idle"
    /\ IF t = NoTube
       THEN /\ th' = [th EXCEPT ![c] = [IdleThread EXCEPT
                         !.pc = "ret", !.caller = "plan", !.tube = t, !.asked = n,
                         !.why = "InvalidTube"]]
            /\ UNCHANGED <<mgr, m_fireSolutionReady, tick>>
       ELSE IF hasWeapon(t) /\ m_engagementMgr[t] = NoWeapon
       THEN /\ th' = CrashedThreads
            /\ tick' = CrashedTick
            /\ UNCHANGED <<mgr, m_fireSolutionReady>>
       ELSE LET r == calculateEngagementPlan(t) IN
            /\ th' = [th EXCEPT ![c] = [IdleThread EXCEPT
                         !.pc = "ret", !.caller = "plan", !.tube = t, !.asked = n, !.ok = r[3],
                         !.why = IF r[3] THEN "none"
                                 ELSE IF ~hasWeapon(t) THEN "NotAssigned"
                                 ELSE "NoValidTarget"]]
            /\ mgr' = r[1]
            /\ m_fireSolutionReady' = r[2]
            /\ UNCHANGED tick
    /\ UNCHANGED <<tubeVars, m_targetInfoMap, m_currentState, m_launched, m_stateMutex,
                   m_currentCancellationToken, tokenCancelled>>
    /\ History

\* The numbers a caller may pass for a tube: the valid ones, 0 and N + 1.
CallTubes == Tubes \cup {0, MaxTubes + 1}
\* The lengths of the waypoint lists passed: empty, the limit, one more.
WaypointCounts == {0, MaxWaypoints, MaxWaypoints + 1}

\* The operator assigns and unassigns tube 1 and makes every per-tube call
\* with every tube number: 0 and N + 1 are invalid, tube 2 stays empty.  A
\* second thread updates waypoints and recomputes plans at any time; tracks
\* arrive.
OpsRequests(c, t) ==
    {<<"ALM", AssignedInfo(t, "ALM", 1, c)>>, <<"ALM", AssignedInfo(t, "ALM", 0, c)>>,
     <<"M_MINE", [AssignedInfo(t, "M_MINE", 0, c) EXCEPT !.dropPlanListNumber = 1,
                                                         !.dropPlanNumber = 1]>>}

OpsNext ==
    \/ \E t \in CallTubes \ {2} : \E r \in OpsRequests(Operator, t) :
           AssignBegin(Operator, t, r[1], r[2])
    \/ \E t \in CallTubes : UnassignBegin(Operator, t)
    \/ AssignStep(Operator)
    \/ ClearStep(Operator)
    \/ \E t \in CallTubes \ {1}, ns \in OperatorStates : RequestBegin(Operator, t, ns, FALSE)
    \/ \E c \in Threads, t \in CallTubes, n \in WaypointCounts : UpdateWaypoints(c, t, n)
    \/ \E c \in Threads, t \in CallTubes : CalculatePlan(c, t)
    \/ \E c \in Threads : Ack(c)
    \/ \E id \in TargetIds : UpdateTargetInfo(id)

SpecOps == InitEmpty /\ [][OpsNext]_vars

\* ------------------------------------------- target calls on one manager
\* The missile manager of tube 1, as constructed and initialised, takes a
\* sequence of at most MaxCalls target calls: setTargetPosition,
\* setSystemTarget(id) and updateTargetInfo(track of id).
MaxCalls == 4
TrackIds == {1, 2}

InitTarget ==
    /\ m_weapon = [t \in Tubes |-> IF t = 1 THEN "c1" ELSE NoWeapon]
    /\ m_engagementMgr = [t \in Tubes |-> IF t = 1 THEN "c1" ELSE NoWeapon]
    /\ m_assignmentInfo = [t \in Tubes |->
           IF t = 1 THEN AssignedInfo(1, "ALM", 0, "c1") ELSE DefaultAssignmentInfo]
    /\ m_currentState = [t \in Tubes |-> "OFF"]
    /\ m_launched = [t \in Tubes |-> FALSE]
    /\ m_fireSolutionReady = [t \in Tubes |-> FALSE]
    /\ m_stateMutex = [t \in Tubes |-> NoThread]
    /\ m_currentCancellationToken = [t \in Tubes |-> <<"own", IF t = 1 THEN TRUE ELSE FALSE>>]
    /\ tokenCancelled = [c \in Threads |-> FALSE]
    /\ mgr = [t \in Tubes |->
           IF t = 1 THEN [FreshManager EXCEPT !.kind = "ALM"] ELSE FreshManager]
    /\ th = [c \in Threads |-> IdleThread]
    /\ m_targetInfoMap = {}
    /\ tick = IdleTick
    /\ readyInOn = [t \in Tubes |-> FALSE]
    /\ clearedFrom = [t \in Tubes |-> "OFF"]
    /\ callLog = <<>>
    /\ metRunning = [c \in Threads |-> FALSE]
    /\ ServicesInit
    /\ delivered = NoCallback

TargetCall(call, m) ==
    /\ Len(callLog) < MaxCalls
    /\ mgr' = [mgr EXCEPT ![1] = m]
    /\ callLog' = Append(callLog, call)
    /\ UNCHANGED <<tubeVars, m_targetInfoMap, weaponVars, tokenCancelled, th, tick>>
    /\ UNCHANGED <<planVars, trackVars, sideVars>>
    /\ HistoryStep

CallSetTargetPosition ==
    TargetCall(<<"setTargetPosition", 0>>, setTargetPosition(mgr[1])[1])

CallSetSystemTarget(id) ==
    TargetCall(<<"setSystemTarget", id>>, setSystemTarget(mgr[1], id)[1])

CallUpdateTargetInfo(id) ==
    TargetCall(<<"updateTargetInfo", id>>, mgrUpdateTargetInfo(mgr[1], id))

TargetNext ==
    \/ CallSetTargetPosition
    \/ \E id \in TrackIds : CallSetSystemTarget(id)
    \/ \E id \in TrackIds : CallUpdateTargetInfo(id)

SpecTarget == InitTarget /\ [][TargetNext]_vars

\* ------------------------------------------ calls on MineDropPlanService
\* One caller; a call runs from entry to return in one step.
controlVars == <<m_weapon, m_engagementMgr, m_assignmentInfo, m_currentState,
                 m_launched, m_fireSolutionReady, m_stateMutex,
                 m_currentCancellationToken, tokenCancelled, mgr, m_targetInfoMap,
                 th, tick, readyInOn, clearedFrom, callLog, metRunning>>

\* planCall.io is the outcome of the file stream when the call reached
\* writeJsonToFile, "none" when it returned before.
PlanCall(op, planListNumber, io, result) ==
    /\ m_cachedPlans' = result[1].cache
    /\ planFiles' = result[1].files
    /\ planCall' = [op |-> op, list |-> planListNumber, ok |-> result[2],
                    why |-> result[3],
                    io |-> IF result[3] \in {"", "Cannot open file for writing"}
                           THEN io ELSE "none"]
    /\ UNCHANGED <<controlVars, trackVars, sideVars>>

\* The process restarts: a new service is constructed (nothing cached) and
\* initialized from the files.
Restart(io) ==
    PlanCall("initialize", 0, "none",
             <<initializeFrom([cache |-> EmptyMap, files |-> planFiles], 1, io), TRUE, "">>)

LoadPlanList(l) == PlanCall("loadPlanList", l, "none", loadPlanList(planState, l))

SavePlanList(l, plans, io) ==
    PlanCall("savePlanList", l, io, savePlanList(planState, l, plans, io))

CreateNewPlanList(l, io) ==
    PlanCall("createNewPlanList", l, io, createNewPlanList(planState, l, io))

DeletePlanList(l) == PlanCall("deletePlanList", l, "none", deletePlanList(planState, l))

UpdatePlan(l, plan, io) == PlanCall("updatePlan", l, io, updatePlan(planState, l, plan, io))

AddPlan(l, plan, io) == PlanCall("addPlan", l, io, addPlan(planState, l, plan, io))

RemovePlan(l, n, io) == PlanCall("removePlan", l, io, removePlan(planState, l, n, io))

PlanNext ==
    \/ \E io \in IoOutcomes : Restart(io)
    \/ \E l \in CallLists : LoadPlanList(l)
    \/ \E l \in CallLists, plans \in PlanVectors, io \in IoOutcomes : SavePlanList(l, plans, io)
    \/ \E l \in CallLists, io \in IoOutcomes : CreateNewPlanList(l, io)
    \/ \E l \in CallLists : DeletePlanList(l)
    \/ \E l \in CallLists, plan \in PlanInputs, io \in IoOutcomes : UpdatePlan(l, plan, io)
    \/ \E l \in CallLists, plan \in PlanInputs, io \in IoOutcomes : AddPlan(l, plan, io)
    \/ \E l \in CallLists, n \in PlanNumbers, io \in IoOutcomes : RemovePlan(l, n, io)

SpecPlans == InitEmpty /\ [][PlanNext]_vars

\* ---------------------------------------- calls on TargetTrackingService
\* One caller and the clock.  A call of updateTargetInfo takes the registry
\* lock, stores the track, initialises the static lastCleanup on the first
\* call and compares the clock with it; when no sweep is due it returns.
TrackUpdateBegin(id) ==
    /\ trackCall.pc = "idle"
    /\ ~m_targetsMutex
    /\ m_targets' = Put(m_targets, id, now)
    /\ lastCleanup' = IF lastCleanup = NoTime THEN now ELSE lastCleanup
    /\ IF now - lastCleanup' > SweepPeriod
       THEN /\ m_targetsMutex' = TRUE
            /\ trackCall' = [pc |-> "ut_sweep", id |-> id, result |-> "none"]
       ELSE /\ m_targetsMutex' = FALSE
            /\ trackCall' = [pc |-> "idle", id |-> id, result |-> "returned"]
    /\ UNCHANGED <<sideVars, controlVars, planVars, now>>

\* The sweep is due: updateTargetInfo calls clearOldTargets, whose lock_guard
\* locks the std::shared_mutex its caller already owns.  That is undefined;
\* the lock either never returns, or throws std::system_error
\* (resource_deadlock_would_occur), which leaves updateTargetInfo with the
\* lock released, nothing evicted and lastCleanup as it was.
TrackSweep ==
    /\ trackCall.pc = "ut_sweep"
    /\ \/ /\ trackCall' = [trackCall EXCEPT !.pc = "blocked"]
          /\ UNCHANGED m_targetsMutex
       \/ /\ trackCall' = [trackCall EXCEPT !.pc = "idle", !.result = "system_error"]
          /\ m_targetsMutex' = FALSE
    /\ UNCHANGED <<sideVars, controlVars, planVars, m_targets, lastCleanup, now>>

\* TargetTrackingService::clearOldTargets called from outside.
ClearOldTargets(maxAge) ==
    /\ trackCall.pc = "idle"
    /\ ~m_targetsMutex
    /\ m_targets' = evictOld(m_targets, maxAge)
    /\ trackCall' = [pc |-> "idle", id |-> 0, result |-> "swept"]
    /\ UNCHANGED <<sideVars, controlVars, planVars, m_targetsMutex, lastCleanup, now>>

\* A minute passes.
AdvanceClock ==
    /\ now < MaxNow
    /\ now' = now + 1
    /\ UNCHANGED <<sideVars, controlVars, planVars, m_targets, m_targetsMutex, lastCleanup, trackCall>>

TrackNext ==
    \/ \E id \in RegistryIds : TrackUpdateBegin(id)
    \/ TrackSweep
    \/ ClearOldTargets(MaxAge)
    \/ AdvanceClock

SpecTracks == InitEmpty /\ [][TrackNext]_vars

\* ------------------------------------------------- mines and their plans
\* The operator assigns a mine to tube 1, with every combination of a zero
\* or non-zero drop plan list and plan number, and unassigns it; plan 1 of
\* list 1 is added to and removed from the plan store alongside.
MineRequests(c) ==
    {<<"M_MINE", [AssignedInfo(1, "M_MINE", 0, c) EXCEPT !.dropPlanListNumber = l,
                                                         !.dropPlanNumber = n]>> :
        l \in {0, 1}, n \in {0, 1}}

MineNext ==
    \/ \E r \in MineRequests(Operator) : AssignBegin(Operator, 1, r[1], r[2])
    \/ UnassignBegin(Operator, 1)
    \/ AssignStep(Operator)
    \/ ClearStep(Operator)
    \/ Ack(Operator)
    \/ AddPlan(1, PlanOf(1, 3700000), "written")
    \/ RemovePlan(1, 1, "written")

SpecMine == InitEmpty /\ [][MineNext]_vars

\* ------------------------------------------------- the life of one tube
\* The operator assigns tube 1 (a missile aimed at a position) and unassigns
\* it, over and over; a second thread commands the weapon of the tube at any
\* time, and the tick runs alongside.
LifeRequests(c) == {<<"ALM", AssignedInfo(1, "ALM", 0, c)>>}

LifeNext ==
    \/ \E r \in LifeRequests(Operator) : AssignBegin(Operator, 1, r[1], r[2])
    \/ UnassignBegin(Operator, 1)
    \/ AssignStep(Operator)
    \/ ClearStep(Operator)
    \/ \E ns \in OperatorStates : RequestBegin(Stopper, 1, ns, FALSE)
    \/ RequestStep(Stopper)
    \/ \E c \in Threads : Ack(c)
    \/ TickStep

SpecLife == InitEmpty /\ [][LifeNext]_vars

\* ==================================================================== claims

\* C1: every committed change (old, new) of a weapon's control state is a row
\* of the transition table (with the POC sub-state and the two
\* auto-transitions and LAUNCH -> POST_LAUNCH), or its new state is ABORT.
C1_Allowed ==
    {<<"OFF", "POC">>, <<"POC", "ON">>, <<"POC", "OFF">>, <<"ON", "OFF">>,
     <<"RTL", "LAUNCH">>, <<"RTL", "OFF">>, <<"LAUNCH", "ABORT">>, <<"ABORT", "OFF">>,
     <<"POST_LAUNCH", "OFF">>, <<"ON", "RTL">>, <<"RTL", "ON">>,
     <<"LAUNCH", "POST_LAUNCH">>}

C1_OnlyTableTransitions ==
    [][\A t \in Tubes :
          m_currentState'[t] # m_currentState[t] =>
              \/ <<m_currentState[t], m_currentState'[t]>> \in C1_Allowed
              \/ m_currentState'[t] = "ABORT"]_vars

\* C2: an ABORT requested while a LAUNCH is in flight on the same weapon
\* preempts it: from the moment the ABORT request is waiting on the weapon, the
\* launch runs no further launch step and does not return success.
C2_AbortPending(t) ==
    \E a \in Threads :
        th[a].pc = "rsc_lock" /\ th[a].tube = t /\ th[a].newState = "ABORT"

C2_AbortPreemptsLaunch ==
    [][\A l \in Threads :
          (th[l].pc = "launch_run" /\ C2_AbortPending(th[l].tube)) =>
              /\ ~(th'[l].pc = "launch_run" /\ th'[l].step > th[l].step)
              /\ ~(th'[l].pc # "launch_run" /\ th'[l].ok)]_vars

\* C3: an ABORT request on a weapon is accepted whatever the control state:
\* it cancels the weapon's current token before the state is changed, leaves
\* the control state ABORT and returns success.
C3_AbortFromAnyState ==
    [][\A c \in Threads :
          /\ (th[c].pc = "rsc_lock" /\ th[c].newState = "ABORT" /\ th'[c].pc # "rsc_lock") =>
                 /\ th'[c].pc = "abort_set"
                 /\ m_currentState'[th[c].tube] = m_currentState[th[c].tube]
                 /\ currentTokenCancelled(th[c].tube)'
          /\ (th[c].pc = "abort_set" /\ th'[c].pc # "abort_set") =>
                 /\ currentTokenCancelled(th[c].tube)
                 /\ m_currentState'[th[c].tube] = "ABORT"
                 /\ th'[c].ok]_vars

C3_AbortDone ==
    \E c \in Threads :
        /\ th[c].pc = "ret" /\ th[c].newState = "ABORT" /\ th[c].ok
        /\ m_currentState[th[c].tube] = "ABORT"
        /\ m_launched[th[c].tube]

\* C4: an accepted LAUNCH whose token has been cancelled before the last
\* launch step finished returns failure (Aborted), with the control state
\* ABORT and launched false.
C4_CancelledLaunchAborts ==
    [][\A c \in Threads :
          (th[c].pc = "launch_run" /\ th'[c].pc # "launch_run" /\ tokenCancelled[c]) =>
              /\ ~th'[c].ok
              /\ th'[c].why = "Aborted"
              /\ m_currentState'[th[c].tube] = "ABORT"
              /\ ~m_launched'[th[c].tube]]_vars

\* C5: a LAUNCH that runs all its steps returns success with launched true
\* and the control state POST_LAUNCH, and the observers are notified of the
\* launch.
C5_CompletedLaunch ==
    [][\A c \in Threads :
          (th[c].pc = "launch_run" /\ th'[c].pc # "launch_run" /\ th'[c].ok) =>
              /\ m_launched'[th[c].tube]
              /\ m_currentState'[th[c].tube] = "POST_LAUNCH"
              /\ th'[c].noted]_vars

\* C6: an accepted ON from OFF whose token is cancelled before the power-on
\* delay has elapsed returns failure (Cancelled) and leaves OFF; it returns
\* success, leaving ON, only if the token never fired during the wait.
C6_PowerOnCancel ==
    [][\A c \in Threads :
          (th[c].pc = "poc_wait" /\ th'[c].pc # "poc_wait") =>
              /\ tokenCancelled[c] =>
                     /\ ~th'[c].ok
                     /\ th'[c].why = "Cancelled"
                     /\ m_currentState'[th[c].tube] = "OFF"
              /\ ~tokenCancelled[c] =>
                     /\ th'[c].ok
                     /\ m_currentState'[th[c].tube] = "ON"]_vars

\* C7: an update that observes ON with fire_solution_ready true moves the
\* weapon to RTL, one that observes RTL with the flag false moves it to ON,
\* and a weapon in ON whose flag has stayed false does not reach RTL.
C7_AutoTransitions ==
    [][/\ (tick.pc = "t_check" /\ tick'.pc # "t_check") =>
              LET t == Head(tick.todo) IN
              /\ (tick.seen = "ON" /\ m_fireSolutionReady[t]) =>
                     (tick'.pc = "t_set" /\ tick'.next = "RTL")
              /\ (tick.seen = "RTL" /\ ~m_fireSolutionReady[t]) =>
                     (tick'.pc = "t_set" /\ tick'.next = "ON")
       /\ (tick.pc = "t_set" /\ tick'.pc # "t_set") =>
              m_currentState'[Head(tick.todo)] = tick.next
       /\ \A t \in Tubes :
              (m_currentState[t] = "ON" /\ m_currentState'[t] = "RTL") => readyInOn[t]]_vars

\* C8: emergencyStop preempts a launch in flight: once its ABORT waits on the
\* launching tube the launch runs no further step and does not succeed, the
\* ABORT leaves that tube in ABORT with launched false, and the OFF it asks
\* of a tube it saw outside LAUNCH leaves that tube OFF.
C8_EmergencyStopPreempts ==
    [][\A e \in Threads :
          th[e].caller = "estop" =>
              /\ (th[e].pc = "rsc_lock" /\ th[e].newState = "ABORT") =>
                     \A l \in Threads :
                         (th[l].pc = "launch_run" /\ th[l].tube = th[e].tube) =>
                             /\ ~(th'[l].pc = "launch_run" /\ th'[l].step > th[l].step)
                             /\ ~(th'[l].pc # "launch_run" /\ th'[l].ok)
              /\ (th[e].pc = "abort_set" /\ th'[e].pc # "abort_set") =>
                     /\ m_currentState'[th[e].tube] = "ABORT"
                     /\ ~m_launched'[th[e].tube]
              /\ (th[e].pc = "off_set" /\ th'[e].pc # "off_set") =>
                     m_currentState'[th[e].tube] = "OFF"]_vars

\* C9: emergencyStop returns success whenever every assigned tube is in OFF
\* or ABORT when it returns, whatever states the tubes were in when it was
\* called.
C9_EmergencyStopSucceeds ==
    [][\A e \in Threads :
          (/\ th[e].caller = "estop" /\ th[e].pc = "es_next" /\ th'[e].pc = "ret"
           /\ \A t \in Tubes : hasWeapon(t) => m_currentState'[t] \in {"OFF", "ABORT"})
          => th'[e].ok]_vars

\* C10: a tube that holds a weapon is never re-assigned (no step puts another
\* request's weapon, manager or assignment information over the ones the
\* tube holds), and an assignWeapon that returns success leaves the tube
\* with the weapon, the manager and the assignment information of that one
\* request.
C10_SingleAssignment ==
    [][/\ \A t \in Tubes :
              /\ (m_weapon[t] # NoWeapon /\ m_weapon'[t] # NoWeapon) =>
                     m_weapon'[t] = m_weapon[t]
              /\ (m_engagementMgr[t] # NoWeapon /\ m_engagementMgr'[t] # NoWeapon) =>
                     m_engagementMgr'[t] = m_engagementMgr[t]
              /\ (m_assignmentInfo[t].by # NoThread /\ m_assignmentInfo'[t].by # NoThread) =>
                     m_assignmentInfo'[t].by = m_assignmentInfo[t].by
       /\ \A c \in Threads :
              (th[c].caller = "assign" /\ th[c].pc = "as_env" /\ th'[c].pc = "ret") =>
                  /\ m_weapon'[th[c].tube] = c
                  /\ m_engagementMgr'[th[c].tube] = c
                  /\ m_assignmentInfo'[th[c].tube].by = c]_vars

\* C11: an assignWeapon that fails in a sub-step (the factory cannot build
\* the kind, the information block names another tube, the kind-specific
\* set-up fails) returns failure and leaves its tube empty: no weapon, no
\* engagement manager, the default assignment information.
C11_SubFailures == {"CreateFailed", "TubeMismatch", "SetupFailed"}

C11_RollbackOnFailure ==
    [][\A c \in Threads :
          (/\ th[c].pc # "ret" /\ th'[c].pc = "ret"
           /\ th'[c].caller = "assign" /\ th'[c].why \in C11_SubFailures
           /\ th'[c].tube \in Tubes)
          => /\ ~th'[c].ok
             /\ m_weapon'[th'[c].tube] = NoWeapon
             /\ m_engagementMgr'[th'[c].tube] = NoWeapon
             /\ m_assignmentInfo'[th'[c].tube] = DefaultAssignmentInfo]_vars

C13_InvalidNumbers == {0, MaxTubes + 1}

C13_TubeCalls == {"assign", "unassign", "cmd", "waypoints", "plan"}

C13_InvalidTubeRejected ==
    [][\A c \in Threads :
          (/\ th[c].pc = "idle" /\ th'[c].pc \notin {"idle", "crashed"}
           /\ th'[c].caller \in C13_TubeCalls
           /\ th'[c].asked \in C13_InvalidNumbers)
          => /\ th'[c].pc = "ret"
             /\ ~th'[c].ok
             /\ UNCHANGED <<tubeVars, weaponVars, mgr>>]_vars

\* A waypoint update for tube N + 1 has just been refused while tube 1 holds
\* a weapon.
C13_RefusedBeyondLast ==
    /\ th[Operator].pc = "ret" /\ th[Operator].caller = "waypoints"
    /\ th[Operator].asked = MaxTubes + 1 /\ ~th[Operator].ok
    /\ hasWeapon(1) /\ m_engagementMgr[1] # NoWeapon

\* C14: on a valid tube that holds no weapon, unassignWeapon,
\* requestWeaponStateChange (whatever the target state), updateWaypoints and
\* calculateEngagementPlan return failure at once, change nothing, and the
\* tube's status stays {no weapon, OFF, not launched, plan not valid}.
C14_EmptyTubeCalls == {"unassign", "cmd", "waypoints", "plan"}

C14_EmptyTubeRejected ==
    [][\A c \in Threads, t \in Tubes :
          (/\ th[c].pc = "idle" /\ th'[c].pc \notin {"idle", "crashed"}
           /\ th'[c].caller \in C14_EmptyTubeCalls
           /\ th'[c].asked = t
           /\ m_weapon[t] = NoWeapon)
          => /\ th'[c].pc = "ret"
             /\ ~th'[c].ok
             /\ UNCHANGED <<tubeVars, weaponVars, mgr>>
             /\ getStatus(t)' =
                   [hasWeapon |-> FALSE, weaponState |-> "OFF", launched |-> FALSE,
                    engagementPlanValid |-> FALSE]]_vars

\* An ABORT for the empty tube 2 has just been refused.
C14_AbortRefusedOnEmpty ==
    /\ th[Operator].pc = "ret" /\ th[Operator].caller = "cmd"
    /\ th[Operator].newState = "ABORT" /\ th[Operator].asked = 2
    /\ ~th[Operator].ok /\ m_weapon[2] = NoWeapon

\* C15: updateWaypoints on an assigned tube (missile or mine) succeeds for a
\* list of at most 8 waypoints and fails for a longer one, and an update that
\* fails leaves the tube's engagement manager (waypoint list, drop-plan
\* record, engagement result) as it was.
C15_Assigned(t) ==
    /\ m_weapon[t] # NoWeapon /\ m_engagementMgr[t] # NoWeapon
    /\ \A d \in Threads : th[d].tube = t => th[d].pc \in {"idle", "ret"}

C15_WaypointLimit ==
    [][\A c \in Threads, t \in Tubes :
          (/\ th[c].pc = "idle" /\ th'[c].pc = "ret"
           /\ th'[c].caller = "waypoints" /\ th'[c].asked = t
           /\ C15_Assigned(t))
          => /\ th'[c].ok <=> th'[c].step <= 8
             /\ ~th'[c].ok => mgr'[t] = mgr[t]]_vars

\* C16: after any sequence of setTargetPosition, setSystemTarget and
\* updateTargetInfo calls on a missile manager, hasValidTarget holds exactly
\* when the last target selection was a position, or it was a system target
\* and a track of that target has arrived since; tracks of other targets
\* change nothing.
C16_Selections == {"setTargetPosition", "setSystemTarget"}

C16_LastSelection(log) ==
    CHOOSE i \in 1..Len(log) :
        /\ log[i][1] \in C16_Selections
        /\ \A j \in (i + 1)..Len(log) : log[j][1] \notin C16_Selections

C16_Expected(log) ==
    IF \A i \in 1..Len(log) : log[i][1] \notin C16_Selections THEN FALSE
    ELSE LET i == C16_LastSelection(log) IN
         \/ log[i][1] = "setTargetPosition"
         \/ \E j \in (i + 1)..Len(log) : log[j] = <<"updateTargetInfo", log[i][2]>>

C16_ValidTargetIff == mgr[1].hasValidTarget = C16_Expected(callLog)

\* System target 1 selected, then a track of target 2 (ignored), then the
\* track of target 1: the manager has a valid target.
C16_TrackArrived ==
    /\ callLog = <<<<"setSystemTarget", 1>>, <<"updateTargetInfo", 2>>,
                   <<"updateTargetInfo", 1>>>>
    /\ mgr[1].hasValidTarget

\* C17: savePlanList(L, plans) followed by loadPlanList(L) leaves
\* getPlanList(L) equal to plans on the persisted fields, and a plan added
\* with addPlan is still returned by getPlan after the service is
\* re-initialized from the files.  (Every field of a model plan is a
\* persisted one; the saves considered are those whose file was written
\* completely.)
C17_Written(l) ==
    /\ planCall.ok /\ planCall.list = l /\ planCall.io = "written"
    /\ l \in DOMAIN planFiles /\ planFiles[l].complete

C17_SaveLoadRoundTrip ==
    [][\A l \in PlanLists :
          /\ (/\ planCall.op = "savePlanList" /\ C17_Written(l)
              /\ planCall'.op = "loadPlanList" /\ planCall'.list = l)
             => getPlanList(planState', l) = getPlanList(planState, l)
          /\ (/\ planCall.op = "addPlan" /\ C17_Written(l)
              /\ planCall'.op = "initialize")
             => \A i \in 1..Len(getPlanList(planState, l)) :
                   LET plan == getPlanList(planState, l)[i] IN
                   getPlan(planState', l, plan.usDroppingPlanNumber) = <<TRUE, plan>>]_vars

\* C18: addPlan fails, changing neither the cached list nor its file, when
\* the list already holds a plan with the same number or is full (stated by
\* its converse: an addPlan that fails changes nothing, and one that
\* succeeds appended a plan with a new number to a list that was not full);
\* after any sequence of calls every cached list has at most
\* MaxPlansPerList plans and every cached list number is in 1..MaxPlanLists.
C18_CacheBounded ==
    /\ DOMAIN m_cachedPlans \subseteq PlanLists
    /\ \A l \in DOMAIN m_cachedPlans : Len(m_cachedPlans[l]) <= MaxPlansPerList

C18_AddPlanStep ==
    planCall'.op = "addPlan" =>
        LET l == planCall'.list
            before == getPlanList(planState, l)
            after == getPlanList(planState', l)
        IN  IF planCall'.ok
            THEN /\ Len(before) < MaxPlansPerList
                 /\ Len(after) = Len(before) + 1
                 /\ SubSeq(after, 1, Len(before)) = before
                 /\ findPlan(before, after[Len(after)].usDroppingPlanNumber) = 0
            ELSE /\ m_cachedPlans' = m_cachedPlans
                 /\ planFiles' = planFiles

C18_AddPlanRefusals == []C18_CacheBounded /\ [][C18_AddPlanStep]_vars

\* addPlan has just refused plan 1, which the list already held.
C18_DuplicateRefused ==
    /\ planCall.op = "addPlan" /\ ~planCall.ok
    /\ planCall.why = "Plan number already exists"
    /\ findPlan(getPlanList(planState, 1), 1) # 0

\* C19: when writing the list's file fails during savePlanList (called
\* directly or from addPlan, updatePlan or removePlan), the call returns
\* failure and the cache is what it was before the call.
C19_SaveCalls == {"savePlanList", "addPlan", "updatePlan", "removePlan"}

C19_WriteFailureSurfaced ==
    [][(planCall'.op \in C19_SaveCalls /\ planCall'.io \in {"open_failed", "write_failed"})
          => (~planCall'.ok /\ m_cachedPlans' = m_cachedPlans)]_vars

\* The part of C19 the code keeps: a file that cannot be opened.
C19_OpenFailureSurfaced ==
    [][(planCall'.op \in C19_SaveCalls /\ planCall'.io = "open_failed")
          => (~planCall'.ok /\ m_cachedPlans' = m_cachedPlans /\ planFiles' = planFiles)]_vars

\* C20: a call of updateTargetInfo on which the sweep is due terminates
\* with the registry lock released, the updated track present, every entry
\* older than MaxAge evicted and no younger entry removed.
C20_DueSweepCompletes ==
    [][(trackCall.pc = "ut_sweep" /\ trackCall' # trackCall) =>
          /\ trackCall'.pc = "idle" /\ trackCall'.result = "returned"
          /\ ~m_targetsMutex'
          /\ trackCall.id \in DOMAIN m_targets'
          /\ \A id \in DOMAIN m_targets :
                (id \in DOMAIN m_targets') <=> ~(now - m_targets[id] > MaxAge)]_vars

\* The part of C20 the code keeps: a call on which no sweep is due returns
\* with the lock released, the track stored and no entry removed.
C20_PlainUpdateReturns ==
    [][(trackCall.pc = "idle" /\ trackCall'.pc = "idle" /\ trackCall'.result = "returned"
        /\ trackCall' # trackCall) =>
          /\ ~m_targetsMutex'
          /\ trackCall'.id \in DOMAIN m_targets' /\ m_targets'[trackCall'.id] = now
          /\ \A id \in DOMAIN m_targets : id \in DOMAIN m_targets']_vars

\* C21: a cancellation token is monotonic and cancel() is idempotent.  A
\* request's token, while the request is in flight, and the weapon's
\* current-operation token, while it stays the same token (the weapon is not
\* replaced and no other token is assigned over it), never go from cancelled
\* to not cancelled; the weapon's copy of a request's token keeps the flag
\* when the request's own copy is gone; cancelling twice leaves what
\* cancelling once leaves.
C21_InFlight ==
    {"rsc_lock", "abort_set", "off_set", "poc_set", "poc_wait", "launch_set",
     "launch_run"}

C21_SameToken(t) ==
    /\ m_weapon'[t] = m_weapon[t]
    /\ \/ m_currentCancellationToken'[t] = m_currentCancellationToken[t]
          /\ (m_currentCancellationToken[t][1] = "tok"
                 => th[m_currentCancellationToken[t][2]].pc \in C21_InFlight)
       \/ m_currentCancellationToken[t][1] = "own" /\ m_currentCancellationToken'[t][1] = "own"
       \/ /\ m_currentCancellationToken[t][1] = "tok"
          /\ m_currentCancellationToken'[t][1] = "own"

C21_TokenStep ==
    /\ \A c \in Threads :
          (th[c].pc \in C21_InFlight /\ tokenCancelled[c]) => tokenCancelled'[c]
    /\ \A t \in Tubes :
          (C21_SameToken(t) /\ currentTokenCancelled(t)) => currentTokenCancelled(t)'

C21_CancelTwice ==
    \A t \in Tubes :
        LET once == cancelCurrentToken(t, m_currentCancellationToken, tokenCancelled)
            twice == cancelCurrentToken(t, once[1], once[2])
        IN  /\ twice = once
            /\ IF once[1][t][1] = "tok" THEN once[2][once[1][t][2]] ELSE once[1][t][2]

C21_TokenMonotonic == []C21_CancelTwice /\ [][C21_TokenStep]_vars

\* An ABORT has returned after cancelling, twice (requestStateChange and
\* processAbort), the token of another thread's request that the weapon
\* still holds.
C21_CancelledTwice ==
    /\ th["c2"].pc = "ret" /\ th["c2"].newState = "ABORT" /\ th["c2"].ok
    /\ m_currentCancellationToken[1] = <<"tok", "c1">>
    /\ tokenCancelled["c1"]

\* C22: an assign of a mine succeeds only with a non-zero drop plan list and
\* plan number that name a plan of the plan store, so that a tube occupied
\* by a mine has such an assignment.
C22_Resolves(a) ==
    /\ a.dropPlanListNumber # 0
    /\ a.dropPlanNumber # 0
    /\ getPlan(planState, a.dropPlanListNumber, a.dropPlanNumber)[1]

C22_MineAssignResolved ==
    [][\A c \in Threads :
          (/\ th[c].caller = "assign" /\ th[c].pc = "as_env"
           /\ th'[c].pc = "ret" /\ th'[c].ok
           /\ m_assignmentInfo[th[c].tube].weaponKind = "M_MINE")
          => (hasWeapon(th[c].tube) /\ C22_Resolves(m_assignmentInfo[th[c].tube]))]_vars

\* The part of C22 the code keeps: a mine is set up on a mine manager only.
C22_MineOnMineManager ==
    [][\A c \in Threads :
          (/\ th[c].caller = "assign" /\ th[c].pc = "as_env"
           /\ th'[c].pc = "ret" /\ th'[c].ok
           /\ m_assignmentInfo[th[c].tube].weaponKind = "M_MINE")
          => (hasWeapon(th[c].tube) /\ mgr[th[c].tube].kind = "M_MINE")]_vars

\* ------------------------------------------ one engagement manager in detail
\* The manager's plan with its times and positions, which the tubes above
\* carry only as a validity flag.  Calls are made one at a time, as one
\* thread makes them.
EngKinds == {"ALM", "ASM", "AAM", "M_MINE"}
EngMissileKinds == {"ALM", "ASM", "AAM"}

GeoPoints == {[lat |-> 1, alt |-> 0], [lat |-> 2, alt |-> 5]}
EngTracks == {[id |-> i, lat |-> a, depth |-> d] : i \in {1, 2}, a \in {1, 2}, d \in {0, 5}}
NineWaypoints == [i \in 1..9 |-> [lat |-> 1, alt |-> 0]]
WaypointLists ==
    {<<>>, <<[lat |-> 1, alt |-> 0]>>,
     <<[lat |-> 2, alt |-> 5], [lat |-> 1, alt |-> 0]>>, NineWaypoints}

missileCalculateTrajectory_NoPath(m) ==
    <<[m EXCEPT !.m_engagementResult.isValid = m.m_hasValidTarget,
                !.m_engagementResult.totalTime_sec = 100], TRUE>>

\* ALM/ASM/AAMEngagementManager::calculateTrajectory.
missileCalculateTrajectory(m) ==
    LET r0 == [m.m_engagementResult EXCEPT
                  !.isValid = m.m_hasValidTarget,
                  !.totalTime_sec = CASE m.kind = "ALM" -> 100
                                      [] m.kind = "ASM" -> 80
                                      [] OTHER -> 60]
        r1 == IF m.m_hasValidTarget
              THEN [r0 EXCEPT !.targetPosition = m.m_targetPosition,
                              !.trajectory = <<m.m_launchPosition, m.m_targetPosition>>]
              ELSE r0
    IN <<[m EXCEPT !.m_engagementResult = r1], TRUE>>

\* MineEngagementManager::calculateTrajectory.
mineCalculateTrajectory(m) ==
    <<[m EXCEPT !.m_engagementResult.isValid = TRUE,
                !.m_engagementResult.totalTime_sec = 300,
                !.m_engagementResult.trajectory =
                    <<m.m_launchPosition>> \o m.m_waypoints
                        \o <<m.m_engagementResult.targetPosition>>], TRUE>>

\* MissileEngagementManagerBase / MineEngagementManagerBase
\* ::calculateEngagementPlan: <<manager after the call, success>>.
engCalculateEngagementPlan(m) ==
    IF m.kind \in EngMissileKinds
    THEN IF ~m.m_hasValidTarget
         THEN <<[m EXCEPT !.m_engagementResult.isValid = FALSE], FALSE>>
         ELSE missileCalculateTrajectory(m)
    ELSE mineCalculateTrajectory(m)

\* The factory's constructor followed by EngagementManagerBase::initialize.
EngCreate(kind) ==
    /\ eng.kind = "NA"
    /\ eng' = [NoManager EXCEPT !.kind = kind]
    /\ UNCHANGED <<controlVars, planVars, trackVars, fineVars, noteVars>>

\* The manager is destroyed (the tube drops its pointer).
EngDestroy ==
    /\ eng.kind # "NA"
    /\ eng' = NoManager
    /\ UNCHANGED <<controlVars, planVars, trackVars, fineVars, noteVars>>

\* EngagementManagerBase::reset.
EngReset ==
    /\ eng.kind # "NA"
    /\ eng' = [eng EXCEPT !.m_engagementResult = DefaultPlanResult, !.m_waypoints = <<>>]
    /\ UNCHANGED <<controlVars, planVars, trackVars, fineVars, noteVars>>

\* MissileEngagementManagerBase::setTargetPosition.
EngSetTargetPosition(p) ==
    /\ eng.kind \in EngMissileKinds
    /\ eng' = engCalculateEngagementPlan(
                  [eng EXCEPT !.m_targetPosition = p, !.m_systemTargetId = 0,
                              !.m_hasValidTarget = TRUE])[1]
    /\ UNCHANGED <<controlVars, planVars, trackVars, fineVars, noteVars>>

\* MissileEngagementManagerBase::setSystemTarget.
EngSetSystemTarget(id) ==
    /\ eng.kind \in EngMissileKinds
    /\ eng' = [eng EXCEPT !.m_systemTargetId = id, !.m_hasValidTarget = FALSE]
    /\ UNCHANGED <<controlVars, planVars, trackVars, fineVars, noteVars>>

\* MissileEngagementManagerBase::updateTargetInfo: the track's depth becomes
\* the target's altitude with its sign turned.
EngUpdateTargetInfo(target) ==
    /\ eng.kind \in EngMissileKinds
    /\ eng' = IF eng.m_systemTargetId # 0 /\ target.id = eng.m_systemTargetId
              THEN engCalculateEngagementPlan(
                       [eng EXCEPT !.m_targetPosition = [lat |-> target.lat,
                                                         alt |-> 0 - target.depth],
                                   !.m_hasValidTarget = TRUE])[1]
              ELSE eng
    /\ UNCHANGED <<controlVars, planVars, trackVars, fineVars, noteVars>>

\* MissileEngagementManagerBase::updateWaypoints and
\* MineEngagementManagerBase::updateDropPlanWaypoints.
EngUpdateWaypoints(waypoints) ==
    /\ eng.kind # "NA"
    /\ eng' = IF Len(waypoints) > MaxWaypoints THEN eng
              ELSE engCalculateEngagementPlan([eng EXCEPT !.m_waypoints = waypoints])[1]
    /\ UNCHANGED <<controlVars, planVars, trackVars, fineVars, noteVars>>

\* MineEngagementManagerBase::setDropPlan: the numbers are stored, the plan
\* itself is not looked up.
EngSetDropPlan(planNum) ==
    /\ eng.kind = "M_MINE"
    /\ eng' = [eng EXCEPT !.m_dropPlanNumber = planNum]
    /\ UNCHANGED <<controlVars, planVars, trackVars, fineVars, noteVars>>

\* calculateEngagementPlan as the tick and the replan thread call it.
EngCalculateEngagementPlan ==
    /\ eng.kind # "NA"
    /\ eng' = engCalculateEngagementPlan(eng)[1]
    /\ UNCHANGED <<controlVars, planVars, trackVars, fineVars, noteVars>>

EngNext ==
    \/ \E k \in EngKinds : EngCreate(k)
    \/ EngDestroy
    \/ EngReset
    \/ \E p \in GeoPoints : EngSetTargetPosition(p)
    \/ \E id \in {1, 2} : EngSetSystemTarget(id)
    \/ \E target \in EngTracks : EngUpdateTargetInfo(target)
    \/ \E w \in WaypointLists : EngUpdateWaypoints(w)
    \/ \E n \in {1, 2} : EngSetDropPlan(n)
    \/ EngCalculateEngagementPlan

SpecEngage == InitEmpty /\ [][EngNext]_vars

C23_ValidMinePlan ==
    /\ eng.m_engagementResult.isValid
    /\ eng.kind = "M_MINE"
    /\ Len(eng.m_engagementResult.trajectory) = 4

\* C24: a request that is no ABORT and has waited at the state mutex while
\* another request on the same weapon was in its POC wait or its launch
\* steps is rejected: it returns failure and leaves the weapon's control
\* state as it is.
C24_SecondStep ==
    \A c \in Threads :
        (metRunning[c] /\ th[c].pc = "rsc_lock" /\ th'[c].pc # "rsc_lock") =>
            /\ th'[c].pc = "ret"
            /\ ~th'[c].ok
            /\ m_currentState' = m_currentState

C24_SecondRejected == [][C24_SecondStep]_vars

\* What the code keeps: while a request is in its POC wait or its launch
\* steps, no other request on that weapon is past the state mutex.
C24_SecondWaits ==
    \A c \in Threads : \A d \in Threads \ {c} :
        (th[c].pc \in {"poc_wait", "launch_run"} /\ th[d].tube = th[c].tube) =>
            th[d].pc \in {"idle", "ret", "rsc_lock", "es_next", "es_begin"}

\* C30: once unassignWeapon has been issued on a tube whose weapon has a
\* request in its POC wait or its launch steps, that request stops early and
\* returns failure, and the weapon's launched flag does not become true.
C30_UnassignIssued(t) ==
    \E c \in Threads :
        th[c].caller = "unassign" /\ th[c].tube = t /\ th[c].pc = "cl_reset"

C30_UnassignStep ==
    \A t \in Tubes : \A d \in Threads :
        (/\ C30_UnassignIssued(t)
         /\ th[d].tube = t
         /\ th[d].pc \in {"poc_wait", "launch_run"}) =>
            /\ m_launched'[t] => m_launched[t]
            /\ th'[d].pc = "ret" => ~th'[d].ok

C30_UnassignCancels == [][C30_UnassignStep]_vars

\* What the code keeps: an unassign that returned success left the tube
\* empty.
C30_TubeEndsEmpty ==
    [][\A c \in Threads :
          (th[c].caller = "unassign" /\ th[c].pc = "cl_info" /\ th'[c].pc = "ret") =>
              /\ th'[c].ok
              /\ m_weapon'[th[c].tube] = NoWeapon
              /\ m_engagementMgr'[th[c].tube] = NoWeapon]_vars

\* C28: while the tick is inside LaunchTube::update on a tube, or a command
\* is inside requestStateChange on the tube's weapon, the tube is not half
\* assigned or half cleared (a weapon is there with its engagement manager),
\* and no thread has used a pointer that another thread cleared.
C28_Observed(t) ==
    \/ tick.pc \notin {"idle", "crashed"} /\ tick.todo # <<>> /\ Head(tick.todo) = t
    \/ \E d \in Threads :
          /\ th[d].tube = t
          /\ th[d].caller \in {"cmd", "estop"}
          /\ th[d].pc \notin {"idle", "ret", "crashed", "es_next"}

C28_NeverPartial ==
    /\ th # CrashedThreads
    /\ \A t \in Tubes :
          (C28_Observed(t) /\ m_weapon[t] # NoWeapon) => m_engagementMgr[t] # NoWeapon

\* ------------------- the weapon of tube 1, its locks and observers, step by step
\* Every call is the sequence of the steps it still has to take; a step is a
\* lock taken or released, an atomic access, or a callback.  The calls above
\* take setState and its notification as one step; here the exchange, the
\* observer mutex and the callback are steps of their own.
At(x, name) == run[x].todo # <<>> /\ Head(run[x].todo)[1] = name
Rest(x) == Tail(run[x].todo)
Advance(x, todo) == run' = [run EXCEPT ![x].todo = todo]

holdsTubes(x) == m_tubesMutex.writer = x \/ x \in m_tubesMutex.readers

FineRest ==
    /\ UNCHANGED <<th, tick, m_targetInfoMap, callLog, planVars, trackVars, eng, noteVars>>
    /\ HistoryStep

OnlyRun ==
    /\ UNCHANGED <<tubeVars, weaponVars, tokenCancelled, mgr, m_observerMutex,
                   m_tubesMutex, m_observers, delivered>>
    /\ FineRest

\* WeaponBase::notifyStateChanged and notifyLaunchStatusChanged: the
\* observer mutex is held around the callbacks.
notifyStateChangedSteps(oldState, newState) ==
    <<<<"lock_observer">>, <<"onStateChanged", oldState, newState>>, <<"unlock_observer">>>>

notifyLaunchStatusChangedSteps ==
    <<<<"lock_observer">>, <<"onLaunchStatusChanged">>, <<"unlock_observer">>>>

\* WeaponBase::processTurnOff, processTurnOn, processLaunch and processAbort.
processSteps(newState) ==
    CASE newState = "OFF"    -> <<<<"cancel">>, <<"setState", "OFF">>>>
      [] newState = "ON"     -> <<<<"setState", "POC">>, <<"sleep", "ON">>, <<"setState", "ON">>>>
      [] newState = "LAUNCH" -> <<<<"setState", "LAUNCH">>>>
                                \o [i \in 1..NumLaunchSteps |-> <<"sleep", "LAUNCH">>]
                                \o <<<<"setLaunched">>>>
      [] OTHER               -> <<<<"cancel">>, <<"setState", "ABORT">>>>

\* LaunchTubeManager::requestWeaponStateChange down to
\* WeaponBase::requestStateChange: the tube is looked up under the shared
\* tubes lock, the state mutex is held from the first line to the return.
requestSteps ==
    <<<<"lock_shared_tubes">>, <<"unlock_tubes">>, <<"hasWeapon">>,
      <<"lock_state">>, <<"dispatch">>>>

\* LaunchTubeManager::emergencyStop on the tube of its snapshot.
emergencyStopSteps ==
    <<<<"lock_shared_tubes">>, <<"snapshot">>, <<"unlock_tubes">>,
      <<"emergencyTarget">>, <<"hasWeapon">>, <<"lock_state">>, <<"dispatch">>>>

\* LaunchTubeManager::update: the snapshot, then LaunchTube::update.
updateSteps ==
    <<<<"lock_shared_tubes">>, <<"snapshot">>, <<"unlock_tubes">>, <<"hasWeapon">>,
      <<"load">>, <<"interlock">>, <<"plan", TRUE>>, <<"return", TRUE>>>>

\* A clearAssignment that resets the weapon before it lets go of the
\* observer mutex.
clearAssignmentSteps_Nested(weapon) ==
    (IF weapon THEN <<<<"lock_observer">>, <<"removeStateObserver">>, <<"lock_state">>,
                      <<"reset">>, <<"unlock_state">>, <<"unlock_observer">>>>
     ELSE <<>>)
    \o <<<<"clearPointers">>>>

\* LaunchTube::clearAssignment, the weapon being there or not at line 182.
clearAssignmentSteps(weapon) ==
    (IF weapon THEN <<<<"lock_observer">>, <<"removeStateObserver">>, <<"unlock_observer">>,
                      <<"lock_state">>, <<"reset">>, <<"unlock_state">>>>
     ELSE <<>>)
    \o <<<<"clearPointers">>>>

\* LaunchTubeManager::unassignWeapon.
unassignSteps ==
    <<<<"lock_shared_tubes">>, <<"unlock_tubes">>, <<"hasWeapon">>,
      <<"clearAssignment">>, <<"return", TRUE>>>>

\* LaunchTubeManager::shutdown: the tubes lock is held exclusively to the end.
shutdownSteps ==
    <<<<"lock_tubes">>, <<"ifWeapon">>, <<"clearAssignment">>, <<"unlock_tubes">>,
      <<"return", TRUE>>>>

\* LaunchTubeManager::assignWeapon and LaunchTube::assignWeapon: the
\* pointers are stored, the weapon is initialised (reset) and the tube is
\* registered as its observer.
assignSteps ==
    <<<<"lock_shared_tubes">>, <<"unlock_tubes">>, <<"assignCheck">>, <<"store">>,
      <<"lock_state">>, <<"reset">>, <<"unlock_state">>,
      <<"lock_observer">>, <<"addStateObserver">>, <<"unlock_observer">>,
      <<"return", TRUE>>>>

\* LaunchTube::calculateEngagementPlan: the manager computes, the weapon is
\* told, the change is detected.
tubeCalculateSteps ==
    <<<<"mgrCalculate">>, <<"pushReady">>, <<"compare">>, <<"return", TRUE>>>>

stepsOf(op) ==
    CASE op = "request"  -> requestSteps
      [] op = "calculate" -> tubeCalculateSteps
      [] op = "estop"    -> emergencyStopSteps
      [] op = "update"   -> updateSteps
      [] op = "unassign" -> unassignSteps
      [] op = "shutdown" -> shutdownSteps
      [] OTHER           -> assignSteps

\* A runner enters a call of the coordinator.
Call(x, op, newState) ==
    /\ run[x].op = "idle"
    /\ run' = [run EXCEPT ![x] = [IdleRun EXCEPT !.op = op, !.todo = stepsOf(op),
                                                 !.newState = newState]]
    /\ OnlyRun

\* The caller of a request cancels the token it passed.
CancelRequest(c) ==
    /\ run[c].op = "request"
    /\ ~tokenCancelled[c]
    /\ tokenCancelled' = [tokenCancelled EXCEPT ![c] = TRUE]
    /\ UNCHANGED <<tubeVars, weaponVars, mgr, fineVars>>
    /\ FineRest

\* std::lock_guard / std::shared_lock constructed: the step is taken when
\* the lock is free for the runner.
Acquire(x) ==
    /\ run[x].todo # <<>>
    /\ LET lock == Head(run[x].todo)[1] IN
       /\ lock \in {"lock_tubes", "lock_shared_tubes", "lock_state", "lock_observer"}
       /\ CASE lock = "lock_tubes" ->
                 /\ m_tubesMutex = [writer |-> NoThread, readers |-> {}]
                 /\ m_tubesMutex' = [m_tubesMutex EXCEPT !.writer = x]
                 /\ UNCHANGED <<m_stateMutex, m_observerMutex>>
            [] lock = "lock_shared_tubes" ->
                 /\ m_tubesMutex.writer = NoThread
                 /\ m_tubesMutex' = [m_tubesMutex EXCEPT !.readers = @ \cup {x}]
                 /\ UNCHANGED <<m_stateMutex, m_observerMutex>>
            [] lock = "lock_state" ->
                 /\ m_stateMutex[1] = NoThread
                 /\ m_stateMutex' = [m_stateMutex EXCEPT ![1] = x]
                 /\ UNCHANGED <<m_tubesMutex, m_observerMutex>>
            [] OTHER ->
                 /\ m_observerMutex = NoThread
                 /\ m_observerMutex' = x
                 /\ UNCHANGED <<m_tubesMutex, m_stateMutex>>
    /\ Advance(x, Rest(x))
    /\ UNCHANGED <<tubeVars, m_currentState, m_launched, m_fireSolutionReady,
                   m_currentCancellationToken, tokenCancelled, mgr, m_observers, delivered>>
    /\ FineRest

\* The guard goes out of scope.
Release(x) ==
    /\ run[x].todo # <<>>
    /\ LET lock == Head(run[x].todo)[1] IN
       /\ lock \in {"unlock_tubes", "unlock_state", "unlock_observer"}
       /\ CASE lock = "unlock_tubes" ->
                 /\ m_tubesMutex' = [writer |-> IF m_tubesMutex.writer = x THEN NoThread
                                                ELSE m_tubesMutex.writer,
                                     readers |-> m_tubesMutex.readers \ {x}]
                 /\ UNCHANGED <<m_stateMutex, m_observerMutex>>
            [] lock = "unlock_state" ->
                 /\ m_stateMutex' = [m_stateMutex EXCEPT ![1] = NoThread]
                 /\ UNCHANGED <<m_tubesMutex, m_observerMutex>>
            [] OTHER ->
                 /\ m_observerMutex' = NoThread
                 /\ UNCHANGED <<m_tubesMutex, m_stateMutex>>
    /\ Advance(x, Rest(x))
    /\ UNCHANGED <<tubeVars, m_currentState, m_launched, m_fireSolutionReady,
                   m_currentCancellationToken, tokenCancelled, mgr, m_observers, delivered>>
    /\ FineRest

\* LaunchTube::hasWeapon where a call tests it: "hasWeapon" returns failure
\* from an empty tube, "snapshot" (getAssignedTubes, under the shared lock)
\* leaves an empty tube out, "ifWeapon" (shutdown) skips it, "assignCheck"
\* returns failure from an occupied one.
DoCheck(x) ==
    /\ run[x].todo # <<>>
    /\ LET check == Head(run[x].todo)[1] IN
       /\ check \in {"hasWeapon", "snapshot", "ifWeapon", "assignCheck"}
       /\ Advance(x, CASE check = "hasWeapon" ->
                            IF hasWeapon(1) THEN Rest(x) ELSE <<<<"return", FALSE>>>>
                       [] check = "snapshot" ->
                            IF hasWeapon(1) THEN Rest(x)
                            ELSE <<<<"unlock_tubes">>, <<"return", TRUE>>>>
                       [] check = "ifWeapon" ->
                            IF hasWeapon(1) THEN Rest(x) ELSE Tail(Rest(x))
                       [] OTHER ->
                            IF hasWeapon(1) THEN <<<<"return", FALSE>>>> ELSE Rest(x))
    /\ OnlyRun

\* LaunchTubeManager::emergencyStop, lines 324-334: the target is chosen by
\* the state read, the token is cancelled at once for ABORT.
DoEmergencyTarget(x) ==
    /\ At(x, "emergencyTarget")
    /\ LET targetState == emergencyTarget(m_currentState[1]) IN
       /\ run' = [run EXCEPT ![x].todo = Rest(x), ![x].newState = targetState]
       /\ tokenCancelled' = [tokenCancelled EXCEPT ![x] = (targetState = "ABORT")]
    /\ UNCHANGED <<tubeVars, weaponVars, mgr, m_observerMutex, m_tubesMutex,
                   m_observers, delivered>>
    /\ FineRest

\* WeaponBase::requestStateChange, lines 50-66, under the state mutex.
DoDispatch(x) ==
    LET newState == run[x].newState
        k == cancelCurrentToken(1, m_currentCancellationToken, tokenCancelled)
        leave(ok) == <<<<"unlock_state">>, <<"return", ok>>>>
    IN
    /\ At(x, "dispatch")
    /\ IF newState = "ABORT"
       THEN /\ m_currentCancellationToken' = k[1]
            /\ tokenCancelled' = k[2]
            /\ Advance(x, processSteps("ABORT") \o leave(TRUE))
       ELSE IF ~isValidTransition(m_currentState[1], newState)
       THEN /\ Advance(x, leave(FALSE))
            /\ UNCHANGED <<m_currentCancellationToken, tokenCancelled>>
       ELSE /\ m_currentCancellationToken' =
                  [m_currentCancellationToken EXCEPT ![1] = <<"tok", x>>]
            /\ Advance(x, processSteps(newState) \o leave(TRUE))
            /\ UNCHANGED tokenCancelled
    /\ UNCHANGED <<tubeVars, m_currentState, m_launched, m_fireSolutionReady, m_stateMutex,
                   mgr, m_observerMutex, m_tubesMutex, m_observers, delivered>>
    /\ FineRest

\* m_currentCancellationToken.cancel() at the head of processTurnOff and
\* processAbort.
DoCancel(x) ==
    LET k == cancelCurrentToken(1, m_currentCancellationToken, tokenCancelled) IN
    /\ At(x, "cancel")
    /\ m_currentCancellationToken' = k[1]
    /\ tokenCancelled' = k[2]
    /\ Advance(x, Rest(x))
    /\ UNCHANGED <<tubeVars, m_currentState, m_launched, m_fireSolutionReady, m_stateMutex,
                   mgr, m_observerMutex, m_tubesMutex, m_observers, delivered>>
    /\ FineRest

\* WeaponBase::setState: the exchange; a changed state is notified next.
DoSetState(x) ==
    /\ At(x, "setState")
    /\ LET newState == Head(run[x].todo)[2]
           oldState == m_currentState[1]
       IN /\ m_currentState' = setState(1, newState)
          /\ Advance(x, IF oldState # newState
                        THEN notifyStateChangedSteps(oldState, newState) \o Rest(x)
                        ELSE Rest(x))
    /\ UNCHANGED <<tubeVars, m_launched, m_fireSolutionReady, m_stateMutex,
                   m_currentCancellationToken, tokenCancelled, mgr, m_observerMutex,
                   m_tubesMutex, m_observers, delivered>>
    /\ FineRest

\* The observers' onStateChanged inside notifyStateChanged.
DoOnStateChanged(x) ==
    /\ At(x, "onStateChanged")
    /\ delivered' = IF m_observers /\ delivered # NoCallback
                    THEN <<Head(run[x].todo)[2], Head(run[x].todo)[3]>>
                    ELSE delivered
    /\ Advance(x, Rest(x))
    /\ UNCHANGED <<tubeVars, weaponVars, tokenCancelled, mgr, m_observerMutex,
                   m_tubesMutex, m_observers>>
    /\ FineRest

\* WeaponBase::sleepWithCancellationCheck in processTurnOn and processLaunch:
\* a cancelled wait commits OFF (turn-on) or ABORT (launch) and fails.
DoSleep(x) ==
    /\ At(x, "sleep")
    /\ Advance(x, IF tokenCancelled[x] \/ currentTokenCancelled(1)
                  THEN <<<<"setState", IF Head(run[x].todo)[2] = "ON" THEN "OFF" ELSE "ABORT">>,
                         <<"unlock_state">>, <<"return", FALSE>>>>
                  ELSE Rest(x))
    /\ OnlyRun

\* WeaponBase::setLaunched(true): the exchange; a changed flag is notified
\* and POST_LAUNCH committed.
DoSetLaunched(x) ==
    /\ At(x, "setLaunched")
    /\ m_launched' = [m_launched EXCEPT ![1] = TRUE]
    /\ Advance(x, IF ~m_launched[1]
                  THEN notifyLaunchStatusChangedSteps \o <<<<"setState", "POST_LAUNCH">>>>
                       \o Rest(x)
                  ELSE Rest(x))
    /\ UNCHANGED <<tubeVars, m_currentState, m_fireSolutionReady, m_stateMutex,
                   m_currentCancellationToken, tokenCancelled, mgr, m_observerMutex,
                   m_tubesMutex, m_observers, delivered>>
    /\ FineRest

\* LaunchTube::onLaunchStatusChanged inside notifyLaunchStatusChanged.
DoOnLaunchStatusChanged(x) ==
    /\ At(x, "onLaunchStatusChanged")
    /\ mgr' = IF m_observers /\ m_engagementMgr[1] # NoWeapon
              THEN [mgr EXCEPT ![1].launched = TRUE] ELSE mgr
    /\ Advance(x, Rest(x))
    /\ UNCHANGED <<tubeVars, weaponVars, tokenCancelled, m_observerMutex, m_tubesMutex,
                   m_observers, delivered>>
    /\ FineRest

\* WeaponBase::update, line 148: the state is loaded.
DoLoad(x) ==
    /\ At(x, "load")
    /\ run' = [run EXCEPT ![x].todo = Rest(x), ![x].seen = m_currentState[1]]
    /\ OnlyRun

\* WeaponBase::update, lines 154-165: the interlock decides on the state
\* loaded.
DoInterlock(x) ==
    /\ At(x, "interlock")
    /\ Advance(x, IF run[x].seen = "ON" /\ checkInterlockConditions(1)
                  THEN <<<<"setState", "RTL">>>> \o Rest(x)
                  ELSE IF run[x].seen = "RTL" /\ ~checkInterlockConditions(1)
                  THEN <<<<"setState", "ON">>>> \o Rest(x)
                  ELSE Rest(x))
    /\ OnlyRun

\* LaunchTube::calculateEngagementPlan, from LaunchTube::update before
\* launch only.
DoPlan(x) ==
    LET r == calculateEngagementPlan(1) IN
    /\ At(x, "plan")
    /\ IF Head(run[x].todo)[2] /\ m_launched[1]
       THEN UNCHANGED <<mgr, m_fireSolutionReady>>
       ELSE mgr' = r[1] /\ m_fireSolutionReady' = r[2]
    /\ Advance(x, Rest(x))
    /\ UNCHANGED <<tubeVars, m_currentState, m_launched, m_stateMutex,
                   m_currentCancellationToken, tokenCancelled, m_observerMutex,
                   m_tubesMutex, m_observers, delivered>>
    /\ FineRest

\* LaunchTube::clearAssignment, line 182: the test of the weapon pointer.
DoClearAssignment(x) ==
    /\ At(x, "clearAssignment")
    /\ Advance(x, clearAssignmentSteps(hasWeapon(1)) \o Rest(x))
    /\ OnlyRun

\* WeaponBase::addStateObserver and removeStateObserver, under the observer
\* mutex.
DoObserver(x) ==
    /\ run[x].todo # <<>>
    /\ Head(run[x].todo)[1] \in {"addStateObserver", "removeStateObserver"}
    /\ m_observers' = (Head(run[x].todo)[1] = "addStateObserver")
    /\ delivered' = IF Head(run[x].todo)[1] = "addStateObserver" /\ delivered # NoCallback
                    THEN NoNote ELSE delivered
    /\ Advance(x, Rest(x))
    /\ UNCHANGED <<tubeVars, weaponVars, tokenCancelled, mgr, m_observerMutex, m_tubesMutex>>
    /\ FineRest

\* WeaponBase::reset, under the state mutex.
DoReset(x) ==
    LET w == reset(1) IN
    /\ At(x, "reset")
    /\ m_currentState' = w[1]
    /\ m_launched' = w[2]
    /\ m_fireSolutionReady' = w[3]
    /\ m_currentCancellationToken' = w[4]
    /\ tokenCancelled' = w[5]
    /\ Advance(x, Rest(x))
    /\ UNCHANGED <<tubeVars, m_stateMutex, mgr, m_observerMutex, m_tubesMutex,
                   m_observers, delivered>>
    /\ FineRest

\* A runner is inside the weapon: past the test of the tube's weapon, with
\* steps on the weapon still to take.
InsideWeaponSteps ==
    {"lock_state", "unlock_state", "lock_observer", "unlock_observer", "dispatch",
     "cancel", "setState", "onStateChanged", "sleep", "setLaunched",
     "onLaunchStatusChanged", "load", "interlock"}

RunnerInside(y) ==
    /\ run[y].todo # <<>>
    /\ Head(run[y].todo)[1] \in InsideWeaponSteps

\* LaunchTube::clearAssignment, lines 191-193: the tube lets weapon and
\* manager go.  A runner still inside the weapon then works on a destroyed
\* object: the process goes on or faults.
DoClearPointers(x) ==
    LET w == constructedWeapon(1) IN
    /\ At(x, "clearPointers")
    /\ m_weapon' = [m_weapon EXCEPT ![1] = NoWeapon]
    /\ m_engagementMgr' = [m_engagementMgr EXCEPT ![1] = NoWeapon]
    /\ m_assignmentInfo' = [m_assignmentInfo EXCEPT ![1] = DefaultAssignmentInfo]
    /\ m_currentState' = w[1]
    /\ m_launched' = w[2]
    /\ m_fireSolutionReady' = w[3]
    /\ m_stateMutex' = w[4]
    /\ m_currentCancellationToken' = w[5]
    /\ m_observerMutex' = NoThread
    /\ m_observers' = FALSE
    /\ mgr' = [mgr EXCEPT ![1] = FreshManager]
    /\ \/ Advance(x, Rest(x))
       \/ (\E y \in Runners \ {x} : RunnerInside(y)) /\ run' = CrashedRun
    /\ UNCHANGED <<tokenCancelled, m_tubesMutex, delivered>>
    /\ FineRest

\* LaunchTube::assignWeapon, lines 141-143: a new ALM and its manager are
\* stored in the tube.
DoStore(x) ==
    LET w == constructedWeapon(1) IN
    /\ At(x, "store")
    /\ m_weapon' = [m_weapon EXCEPT ![1] = x]
    /\ m_engagementMgr' = [m_engagementMgr EXCEPT ![1] = x]
    /\ m_assignmentInfo' = [m_assignmentInfo EXCEPT ![1] = AssignedInfo(1, "ALM", 0, x)]
    /\ m_currentState' = w[1]
    /\ m_launched' = w[2]
    /\ m_fireSolutionReady' = w[3]
    /\ m_stateMutex' = w[4]
    /\ m_currentCancellationToken' = w[5]
    /\ m_observerMutex' = NoThread
    /\ m_observers' = FALSE
    /\ mgr' = [mgr EXCEPT ![1] = setTargetPosition([FreshManager EXCEPT !.kind = "ALM"])[1]]
    /\ Advance(x, Rest(x))
    /\ UNCHANGED <<tokenCancelled, m_tubesMutex, delivered>>
    /\ FineRest

\* The call returns; a request's token goes out of scope.
DoReturn(x) ==
    /\ At(x, "return")
    /\ run' = [run EXCEPT ![x] = IdleRun]
    /\ IF x \in Threads
       THEN /\ m_currentCancellationToken' = dropToken(x, m_currentCancellationToken)
            /\ tokenCancelled' = [tokenCancelled EXCEPT ![x] = FALSE]
       ELSE UNCHANGED <<m_currentCancellationToken, tokenCancelled>>
    /\ UNCHANGED <<tubeVars, m_currentState, m_launched, m_fireSolutionReady, m_stateMutex,
                   mgr, m_observerMutex, m_tubesMutex, m_observers, delivered>>
    /\ FineRest

\* The steps at the end of a launch.
LaunchSteps(x) ==
    \/ DoSetLaunched(x)
    \/ DoOnLaunchStatusChanged(x)

\* The steps inside the weapon and the tube's observer.
WeaponSteps(x) ==
    \/ Acquire(x)
    \/ Release(x)
    \/ DoCheck(x)
    \/ DoDispatch(x)
    \/ DoCancel(x)
    \/ DoSetState(x)
    \/ DoOnStateChanged(x)
    \/ DoSleep(x)
    \/ DoLoad(x)
    \/ DoInterlock(x)
    \/ DoPlan(x)
    \/ DoReturn(x)

\* The operator's requests against the tick on one weapon.
NotifyNext ==
    \/ \E ns \in OperatorStates : Call(Operator, "request", ns)
    \/ Call("tick", "update", "OFF")
    \/ CancelRequest(Operator)
    \/ \E x \in Runners : WeaponSteps(x)
    \/ \E x \in Runners : LaunchSteps(x)
    \/ \E ready \in BOOLEAN : SetFireSolutionReady(1, ready)

SpecNotify == Init /\ [][NotifyNext]_vars

\* C25: the observers of one weapon are called with the state changes in the
\* order of the exchanges: the old state of every change delivered is the
\* new state of the change delivered before it.
C25_DeliveryStep ==
    \A x \in Runners :
        (/\ At(x, "onStateChanged")
         /\ run'[x].todo = Rest(x)
         /\ m_observers
         /\ delivered \notin {NoNote, NoCallback}) =>
            Head(run[x].todo)[2] = delivered[2]

C25_DeliveredInCommitOrder == [][C25_DeliveryStep]_vars

\* What the code keeps: every change handed to the observers is a change
\* some exchange made, old state different from new.
C25_DeliveredChanges ==
    delivered \notin {NoNote, NoCallback} => delivered[1] # delivered[2]

\* C26: while an observer's onStateChanged or onLaunchStatusChanged is
\* executing, the notifying thread holds the weapon's observer mutex and
\* does not hold the weapon's state mutex.
C26_InCallback(x) ==
    m_observers /\ (At(x, "onStateChanged") \/ At(x, "onLaunchStatusChanged"))

C26_CallbackOutsideStateLock ==
    \A x \in Runners :
        C26_InCallback(x) => (m_observerMutex = x /\ m_stateMutex[1] # x)

\* What the code keeps: the observer mutex is held around every callback,
\* and the tick's callbacks run without the state mutex.
C26_CallbackUnderObserverLock ==
    /\ \A x \in Runners : C26_InCallback(x) => m_observerMutex = x
    /\ C26_InCallback("tick") => m_stateMutex[1] # "tick"

\* The steps of assignment, clearing and emergency stop.
TubeSteps(x) ==
    \/ DoEmergencyTarget(x)
    \/ DoClearAssignment(x)
    \/ DoObserver(x)
    \/ DoReset(x)
    \/ DoClearPointers(x)
    \/ DoStore(x)

\* The operator turns the weapon on and stops it in emergency, the stopper
\* unassigns, assigns and shuts down, the tick updates; no outward callback
\* is set.
LocksNext ==
    \/ Call(Operator, "request", "ON")
    \/ Call(Operator, "estop", "OFF")
    \/ \E op \in {"unassign", "assign", "shutdown"} : Call(Stopper, op, "OFF")
    \/ Call("tick", "update", "OFF")
    \/ \E x \in Runners : WeaponSteps(x)
    \/ \E x \in Runners : TubeSteps(x)

SpecLocks == InitAssigned /\ [][LocksNext]_vars

\* C27: no thread takes the tubes lock while it holds a weapon's state or
\* observer mutex, nor the state mutex while it holds the observer mutex,
\* and the threads never all wait for one another's locks.
C27_Wants(x) == IF run[x].todo = <<>> THEN "none" ELSE Head(run[x].todo)[1]

C27_Blocked(x) ==
    \/ C27_Wants(x) = "lock_tubes" /\ m_tubesMutex # [writer |-> NoThread, readers |-> {}]
    \/ C27_Wants(x) = "lock_shared_tubes" /\ m_tubesMutex.writer # NoThread
    \/ C27_Wants(x) = "lock_state" /\ m_stateMutex[1] # NoThread
    \/ C27_Wants(x) = "lock_observer" /\ m_observerMutex # NoThread

C27_OrderKept ==
    \A x \in Runners :
        /\ C27_Wants(x) \in {"lock_tubes", "lock_shared_tubes"} =>
               (m_stateMutex[1] # x /\ m_observerMutex # x)
        /\ C27_Wants(x) = "lock_state" => m_observerMutex # x

C27_NoDeadlock ==
    (\E x \in Runners : C27_Blocked(x)) =>
        \E y \in Runners : run[y].todo # <<>> /\ ~C27_Blocked(y)

C27_LockOrder == C27_OrderKept /\ C27_NoDeadlock

\* shutdown, holding the tubes lock, waits at the state mutex for a request
\* in its POC wait, while the tick waits at the tubes lock.
C27_ShutdownWaits ==
    /\ run[Stopper].op = "shutdown" /\ C27_Wants(Stopper) = "lock_state"
    /\ m_tubesMutex.writer = Stopper
    /\ m_stateMutex[1] = Operator /\ C27_Wants(Operator) = "sleep"
    /\ C27_Wants("tick") = "lock_shared_tubes"

\* ------------------------- writers of one plan list, step by step
\* Two callers write plan list 1.  getPlanList holds the shared lock for its
\* copy and the cache is stored under the exclusive lock: each is one step.
\* The file is written between them under no lock; the stream writes the
\* whole list.
StoreList == 1
StorePlans == {PlanOf(n, 3700000) : n \in 0..MaxPlansPerList}
StoreVectors == {<<>>, <<PlanOf(MaxPlansPerList, 3700000)>>}

\* MineDropPlanService::savePlanList: the checks, the file, the cache.
savePlanListSteps(plans) ==
    IF Len(plans) > MaxPlansPerList \/ \E i \in 1..Len(plans) : ~validatePlan(plans[i])
    THEN <<>>
    ELSE <<<<"writeFile", plans>>, <<"storeCache", plans>>>>

\* The vector addPlan, updatePlan and removePlan hand to savePlanList from
\* the list they read: <<proceeds, plans>>.
editedPlans(op, arg, plans) ==
    CASE op = "addPlan" ->
           IF Len(plans) >= MaxPlansPerList \/ findPlan(plans, arg.usDroppingPlanNumber) # 0
           THEN <<FALSE, plans>>
           ELSE <<TRUE, Append(plans, arg)>>
      [] op = "updatePlan" ->
           LET it == findPlan(plans, arg.usDroppingPlanNumber) IN
           <<TRUE, IF it # 0 THEN [plans EXCEPT ![it] = arg] ELSE Append(plans, arg)>>
      [] OTHER ->
           LET it == findPlan(plans, arg) IN
           IF it = 0 THEN <<FALSE, plans>>
           ELSE <<TRUE, [i \in 1..(Len(plans) - 1) |->
                            IF i < it THEN plans[i] ELSE plans[i + 1]]>>

\* The steps of a call from its entry; the last one holds what it returned.
planSteps(op, arg) ==
    CASE op = "savePlanList" ->
           savePlanListSteps(arg)
               \o <<<<"returned", op, arg, savePlanListSteps(arg) # <<>>>>>>
      [] op \in {"addPlan", "updatePlan"} /\ ~validatePlan(arg) ->
           <<<<"returned", op, arg, FALSE>>>>
      [] OTHER ->
           <<<<"getPlanList", op, arg>>>>

StoreRest ==
    UNCHANGED <<controlVars, trackVars, planCall, eng, m_observerMutex, m_tubesMutex,
                m_observers, delivered, noteVars>>

\* A caller enters addPlan, updatePlan, removePlan or savePlanList.
PlanBegin(x, op, arg) ==
    /\ run[x].op = "idle"
    /\ run' = [run EXCEPT ![x] = [IdleRun EXCEPT !.op = op, !.todo = planSteps(op, arg)]]
    /\ UNCHANGED <<m_cachedPlans, planFiles>>
    /\ StoreRest

\* getPlanList returns its copy of the cached list; the caller edits the
\* copy and enters savePlanList with it.
DoGetPlanList(x) ==
    /\ At(x, "getPlanList")
    /\ LET op == Head(run[x].todo)[2]
           arg == Head(run[x].todo)[3]
           edited == editedPlans(op, arg, getPlanList(planState, StoreList))
           save == IF edited[1] THEN savePlanListSteps(edited[2]) ELSE <<>>
       IN  Advance(x, save \o <<<<"returned", op, arg, save # <<>>>>>>)
    /\ UNCHANGED <<m_cachedPlans, planFiles>>
    /\ StoreRest

\* savePlanListToFile: the file is opened, truncated and written.
DoWriteFile(x) ==
    /\ At(x, "writeFile")
    /\ planFiles' = writeJsonToFile(planFiles, StoreList, Head(run[x].todo)[2], "written")[1]
    /\ Advance(x, Rest(x))
    /\ UNCHANGED m_cachedPlans
    /\ StoreRest

\* savePlanList, lines 157-160: the cache entry is replaced under the
\* exclusive lock.
DoStoreCache(x) ==
    /\ At(x, "storeCache")
    /\ m_cachedPlans' = Put(m_cachedPlans, StoreList, Head(run[x].todo)[2])
    /\ Advance(x, Rest(x))
    /\ UNCHANGED planFiles
    /\ StoreRest

\* Every call of the mix has returned.
PlanMixFinished ==
    /\ \A x \in Threads : run[x].op = "idle" \/ At(x, "returned")
    /\ \E x \in Threads : At(x, "returned")

\* The callers go on to their next calls.
PlanMixEnds ==
    /\ PlanMixFinished
    /\ run' = [x \in Runners |-> IdleRun]
    /\ UNCHANGED <<m_cachedPlans, planFiles>>
    /\ StoreRest

StoreNext ==
    \/ \E x \in Threads, plan \in StorePlans : PlanBegin(x, "addPlan", plan)
    \/ \E x \in Threads, plan \in StorePlans : PlanBegin(x, "updatePlan", plan)
    \/ \E x \in Threads, n \in 1..MaxPlansPerList : PlanBegin(x, "removePlan", n)
    \/ \E x \in Threads, plans \in StoreVectors : PlanBegin(x, "savePlanList", plans)
    \/ \E x \in Threads : DoGetPlanList(x)
    \/ \E x \in Threads : DoWriteFile(x)
    \/ \E x \in Threads : DoStoreCache(x)
    \/ PlanMixEnds

SpecStore == InitEmpty /\ [][StoreNext]_vars

\* C29: when every call of a concurrent mix of addPlan, updatePlan,
\* removePlan and savePlanList on one list has returned, the cached list is
\* what the list's file holds, and a plan whose addPlan returned success,
\* and which no call of the mix removed or replaced, is in the list.
C29_CacheIsFile ==
    StoreList \in DOMAIN planFiles =>
        /\ StoreList \in DOMAIN m_cachedPlans
        /\ planFiles[StoreList].plans =
               [i \in 1..Len(m_cachedPlans[StoreList]) |-> planJson(m_cachedPlans[StoreList][i])]

C29_Added(x) ==
    /\ At(x, "returned")
    /\ Head(run[x].todo)[2] = "addPlan"
    /\ Head(run[x].todo)[4]

C29_Removed(n) ==
    \E y \in Threads :
        /\ At(y, "returned")
        /\ \/ Head(run[y].todo)[2] = "savePlanList"
           \/ Head(run[y].todo)[2] = "removePlan" /\ Head(run[y].todo)[3] = n

C29_AddedKept ==
    \A x \in Threads :
        (C29_Added(x) /\ ~C29_Removed(Head(run[x].todo)[3].usDroppingPlanNumber)) =>
            findPlan(getPlanList(planState, StoreList),
                     Head(run[x].todo)[3].usDroppingPlanNumber) # 0

C29_WritesSerialized == PlanMixFinished => (C29_CacheIsFile /\ C29_AddedKept)

C29_FileLagsCache == PlanMixFinished => C29_CacheIsFile

C29_AddLost == PlanMixFinished => C29_AddedKept

\* ------------------------------------------- requests the weapon rejects
\* The operator asks for every state, the internal ones included, while the
\* stopper turns the weapon on and aborts and the tick runs.
RejectNext ==
    \/ \E ns \in States : RequestBegin(Operator, 1, ns, FALSE)
    \/ \E ns \in {"ON", "ABORT"} : RequestBegin(Stopper, 1, ns, FALSE)
    \/ \E c \in Threads : WeaponStep(c)
    \/ TickStep
    \/ \E ready \in BOOLEAN : SetFireSolutionReady(1, ready)

SpecReject == Init /\ [][RejectNext]_vars

\* C31: a request other than ABORT whose (current state, target) pair is not
\* in the transition table returns failure at once (no state is committed,
\* no observer notified) and leaves the control state, launched,
\* fire_solution_ready and the current-operation token as they were.
C31_RejectStep ==
    \A c \in Threads :
        LET t == th[c].tube
            ns == th[c].newState
        IN  (/\ th[c].pc = "rsc_lock"
             /\ th'[c] # th[c]
             /\ ns # "ABORT"
             /\ ns \notin s_defaultTransitionMap[m_currentState[t]]) =>
                /\ th'[c].pc = "ret"
                /\ ~th'[c].ok
                /\ th'[c].why = "InvalidTransition"
                /\ m_currentState'[t] = m_currentState[t]
                /\ m_launched'[t] = m_launched[t]
                /\ m_fireSolutionReady'[t] = m_fireSolutionReady[t]
                /\ m_currentCancellationToken'[t] = m_currentCancellationToken[t]
                /\ tokenCancelled' = tokenCancelled

C31_InvalidRejected == [][C31_RejectStep]_vars

\* A request for POC was rejected from ON.
C31_RejectedPoc ==
    /\ th[Operator].pc = "ret"
    /\ th[Operator].newState = "POC"
    /\ th[Operator].why = "InvalidTransition"
    /\ m_currentState[1] = "ON"

\* A LAUNCH request was rejected from POST_LAUNCH.
C31_RejectedRelaunch ==
    /\ th[Operator].pc = "ret"
    /\ th[Operator].newState = "LAUNCH"
    /\ th[Operator].why = "InvalidTransition"
    /\ m_currentState[1] = "POST_LAUNCH"

\* C32: every target mutation of a missile engagement manager
\* (setTargetPosition, setSystemTarget, an updateTargetInfo of the selected
\* target) returns with the plan recomputed: isEngagementPlanValid() is
\* true iff hasValidTarget() is.
C32_Mutation(call) ==
    \/ call[1] \in {"setTargetPosition", "setSystemTarget"}
    \/ /\ call[1] = "updateTargetInfo"
       /\ mgr[1].systemTargetId # 0
       /\ call[2] = mgr[1].systemTargetId

C32_MutationStep ==
    (Len(callLog') > Len(callLog) /\ C32_Mutation(callLog'[Len(callLog')])) =>
        (mgr'[1].isValid <=> mgr'[1].hasValidTarget)

C32_PlanFollowsTarget == [][C32_MutationStep]_vars

\* What the code keeps: the mutations that recompute (all but
\* setSystemTarget) return with the plan valid iff the target is.
C32_RecomputingStep ==
    (/\ Len(callLog') > Len(callLog)
     /\ C32_Mutation(callLog'[Len(callLog')])
     /\ callLog'[Len(callLog')][1] # "setSystemTarget") =>
        (mgr'[1].isValid <=> mgr'[1].hasValidTarget)

C32_RecomputedFollows == [][C32_RecomputingStep]_vars

\* ------------------ the plan of tube 1 and its callback, step by step
\* The tube holds the engagement manager eng (and a weapon with it).  The
\* tick (LaunchTube::update) and the replan thread
\* (calculateAllEngagementPlans) call LaunchTube::calculateEngagementPlan
\* under no lock of the tube.
Replanner == Operator

\* The comparison that finds no difference whatever the results are.
planChanged_Never(cur, last) == FALSE

\* LaunchTube::notifyEngagementPlanChange, lines 437-439.
planChanged(cur, last) ==
    \/ cur.isValid # last.isValid
    \/ cur.totalTime_sec # last.totalTime_sec
    \/ Len(cur.trajectory) # Len(last.trajectory)

NoteRest ==
    /\ UNCHANGED <<tubeVars, m_currentState, m_launched, m_stateMutex,
                   m_currentCancellationToken, tokenCancelled, mgr, m_targetInfoMap, th,
                   tick, callLog, planVars, trackVars, m_observerMutex, m_tubesMutex,
                   m_observers, delivered>>
    /\ HistoryStep

\* LaunchTube::calculateEngagementPlan, lines 278-284: without a weapon the
\* call fails; the manager computes, and on its failure nothing more is done
\* before the failure is returned.
DoMgrCalculate(x) ==
    LET r == engCalculateEngagementPlan(eng) IN
    /\ At(x, "mgrCalculate")
    /\ IF eng.kind = "NA"
       THEN /\ Advance(x, <<<<"return", FALSE>>>>)
            /\ UNCHANGED eng
       ELSE /\ eng' = r[1]
            /\ Advance(x, IF r[2] THEN Rest(x) ELSE <<<<"return", FALSE>>>>)
    /\ UNCHANGED <<m_fireSolutionReady, noteVars>>
    /\ NoteRest

\* Line 286: m_weapon->setFireSolutionReady(isEngagementPlanValid()).
DoPushReady(x) ==
    /\ At(x, "pushReady")
    /\ m_fireSolutionReady' =
          [m_fireSolutionReady EXCEPT ![1] = eng.m_engagementResult.isValid]
    /\ Advance(x, Rest(x))
    /\ UNCHANGED <<eng, noteVars>>
    /\ NoteRest

\* notifyEngagementPlanChange, lines 434-441: the result is read and
\* compared with the remembered one (the callback is always set, by
\* LaunchTubeManager::initialize).
DoCompare(x) ==
    LET currentResult == eng.m_engagementResult IN
    /\ At(x, "compare")
    /\ Advance(x, IF planChanged(currentResult, m_lastEngagementResult)
                  THEN <<<<"planCallback", currentResult>>, <<"remember", currentResult>>>>
                       \o Rest(x)
                  ELSE Rest(x))
    /\ planLog' = [planLog EXCEPT !.fresh = planLog.fresh /\ ~currentResult.isValid]
    /\ UNCHANGED <<eng, m_fireSolutionReady, m_lastEngagementResult>>
    /\ NoteRest

\* Line 442: the callback is called with the result.
DoPlanCallback(x) ==
    /\ At(x, "planCallback")
    /\ planLog' = [planLog EXCEPT !.delivered = Head(run[x].todo)[2]]
    /\ Advance(x, Rest(x))
    /\ UNCHANGED <<eng, m_fireSolutionReady, m_lastEngagementResult>>
    /\ NoteRest

\* Line 443: the result is remembered.
DoRemember(x) ==
    /\ At(x, "remember")
    /\ m_lastEngagementResult' = Head(run[x].todo)[2]
    /\ Advance(x, Rest(x))
    /\ UNCHANGED <<eng, m_fireSolutionReady, planLog>>
    /\ NoteRest

\* No call is inside the tube.
NoteQuiet == \A x \in Runners : run[x].op = "idle"

\* LaunchTube::assignWeapon: a new weapon (no fire solution) and a new
\* manager are stored, and setupMissileSpecificAssignment sets the target
\* of the manager: the system target if the assignment names one, else the
\* position.  m_lastEngagementResult is not touched.
NoteAssign(kind, systemTargetId) ==
    LET fresh == [NoManager EXCEPT !.kind = kind] IN
    /\ NoteQuiet
    /\ eng.kind = "NA"
    /\ eng' = IF systemTargetId > 0
              THEN [fresh EXCEPT !.m_systemTargetId = systemTargetId,
                                 !.m_hasValidTarget = FALSE]
              ELSE engCalculateEngagementPlan(
                       [fresh EXCEPT !.m_targetPosition = [lat |-> 1, alt |-> 0],
                                     !.m_systemTargetId = 0,
                                     !.m_hasValidTarget = TRUE])[1]
    /\ m_fireSolutionReady' = [m_fireSolutionReady EXCEPT ![1] = FALSE]
    /\ planLog' = [planLog EXCEPT !.fresh = TRUE]
    /\ UNCHANGED <<run, m_lastEngagementResult>>
    /\ NoteRest

\* LaunchTube::clearAssignment: the weapon is reset and dropped with the
\* manager.  m_lastEngagementResult is not touched.
NoteClear ==
    /\ NoteQuiet
    /\ eng.kind # "NA"
    /\ eng' = NoManager
    /\ m_fireSolutionReady' = [m_fireSolutionReady EXCEPT ![1] = FALSE]
    /\ UNCHANGED <<run, noteVars>>
    /\ NoteRest

\* The tube is assigned and cleared between the calls (what happens when it
\* is cleared under a call is the matter of C28); its target is set at any
\* moment.
NoteNext ==
    \/ \E x \in {"tick", Replanner} : Call(x, "calculate", "OFF")
    \/ \E x \in Runners : DoMgrCalculate(x)
    \/ \E x \in Runners : DoPushReady(x)
    \/ \E x \in Runners : DoCompare(x)
    \/ \E x \in Runners : DoPlanCallback(x)
    \/ \E x \in Runners : DoRemember(x)
    \/ \E x \in Runners : DoReturn(x)
    \/ \E k \in {"ALM", "ASM"}, id \in {0, 1} : NoteAssign(k, id)
    \/ NoteClear
    \/ EngSetTargetPosition([lat |-> 1, alt |-> 0])
    \/ EngSetSystemTarget(1)
    \/ EngUpdateTargetInfo([id |-> 1, lat |-> 2, depth |-> 5])

SpecNote == InitEmpty /\ [][NoteNext]_vars

\* C33: the engagement-plan callback of a tube is called only with a result
\* that differs in isValid, totalTime_sec or trajectory size from the result
\* it was last called with (from a default result before the first call),
\* and once the calls have returned the remembered result is the one
\* delivered last.
C33_LastDelivered ==
    IF planLog.delivered = NoNote THEN DefaultPlanResult ELSE planLog.delivered

C33_CallbackStep ==
    \A x \in Runners :
        (At(x, "planCallback") /\ run'[x] # run[x]) =>
            planChanged(Head(run[x].todo)[2], C33_LastDelivered)

C33_FiresOnChange == [][C33_CallbackStep]_vars

C33_RememberedIsDelivered ==
    (NoteQuiet /\ planLog.delivered # NoNote) =>
        m_lastEngagementResult = planLog.delivered

C33_ChangeDetection == C33_FiresOnChange /\ []C33_RememberedIsDelivered

\* C36: when a call of LaunchTube::calculateEngagementPlan on an assigned
\* tube returns, with success or with failure, the weapon's
\* fire_solution_ready equals the validity of the manager's plan.
C36_ReturnStep ==
    \A x \in Runners :
        (/\ run[x].op = "calculate"
         /\ At(x, "return")
         /\ run'[x] # run[x]
         /\ eng.kind # "NA") =>
            m_fireSolutionReady[1] = eng.m_engagementResult.isValid

C36_ReadyFollowsPlan == [][C36_ReturnStep]_vars

\* C37: after an assignment the first comparison of a valid plan by
\* notifyEngagementPlanChange finds a change, so that the callback is called
\* whatever the previous assignment reported last.
C37_FirstCompareStep ==
    \A x \in Runners :
        (/\ At(x, "compare")
         /\ run'[x] # run[x]
         /\ planLog.fresh
         /\ eng.m_engagementResult.isValid) =>
            (run'[x].todo # <<>> /\ Head(run'[x].todo)[1] = "planCallback")

C37_FreshBaseline == [][C37_FirstCompareStep]_vars

\* What the code keeps: the first comparison of a valid plan after the very
\* first assignment of the tube finds a change.
C37_VeryFirstStep ==
    \A x \in Runners :
        (/\ At(x, "compare")
         /\ run'[x] # run[x]
         /\ planLog.fresh
         /\ planLog.delivered = NoNote
         /\ m_lastEngagementResult = DefaultPlanResult
         /\ eng.m_engagementResult.isValid) =>
            (run'[x].todo # <<>> /\ Head(run'[x].todo)[1] = "planCallback")

C37_VeryFirstFires == [][C37_VeryFirstStep]_vars

\* ----------------------------------- the loops over the assigned tubes
\* One thread calls emergencyStop and requestAllWeaponStateChange while the
\* tick runs.
Sweeps == {"estop", "all"}

SweepNext ==
    \/ \E ns \in OperatorStates : RequestAllBegin(Stopper, ns)
    \/ EmergencyStopStep(Stopper)
    \/ RequestStep(Stopper) \/ Ack(Stopper)
    \/ TickStep

SpecSweep == InitAssigned /\ [][SweepNext]_vars

\* C34: emergencyStop and requestAllWeaponStateChange start from the tubes
\* assigned at that moment, issue a request to each of them in turn whether
\* the requests before succeeded or failed, count every failed request
\* (an InvalidTransition among them), and return success exactly when no
\* request of the loop failed.
C34_LoopStep ==
    \A e \in Threads :
        /\ (th[e].pc = "idle" /\ th'[e].caller \in Sweeps) =>
               /\ th'[e].todo = Ascending({t \in Tubes : hasWeapon(t)})
               /\ th'[e].allSuccess
        /\ (th[e].caller \in Sweeps /\ th[e].pc = "es_next" /\ th'[e].pc = "rsc_lock") =>
               /\ th'[e].tube = Head(th[e].todo)
               /\ th'[e].todo = th[e].todo
               /\ th'[e].allSuccess = th[e].allSuccess
        /\ (th[e].caller \in Sweeps /\ th[e].pc \notin {"es_next", "ret"}) =>
               /\ th'[e].todo = th[e].todo \/ th'[e].pc = "es_next"
               /\ th'[e].allSuccess = th[e].allSuccess \/ th'[e].pc = "es_next"
               /\ th'[e].pc = "es_next" =>
                      /\ th'[e].todo = Tail(th[e].todo)
                      /\ th'[e].allSuccess = (th[e].allSuccess /\ th'[e].ok)
                      /\ (th[e].pc = "rsc_lock" /\ m_currentState' = m_currentState
                          /\ th[e].newState # "ABORT"
                          /\ th[e].newState \notin s_defaultTransitionMap[m_currentState[th[e].tube]])
                             => ~th'[e].ok /\ th'[e].why = "InvalidTransition"
        /\ (th[e].caller \in Sweeps /\ th[e].pc = "es_next" /\ th'[e].pc = "ret") =>
               /\ th[e].todo = <<>>
               /\ th'[e].ok = th[e].allSuccess

C34_ErrorsAccumulated == [][C34_LoopStep]_vars

\* requestAllWeaponStateChange has gone through both tubes: the request to
\* the first was rejected as an invalid transition, the request to the
\* second succeeded, and the loop is about to return failure.
C34_FailedThenServed ==
    \E e \in Threads :
        /\ th[e].caller = "all"
        /\ th[e].pc = "es_next"
        /\ th[e].todo = <<>>
        /\ th[e].tube = 2
        /\ th[e].ok
        /\ ~th[e].allSuccess

C34_EStopFailedThenServed ==
    \E e \in Threads :
        /\ th[e].caller = "estop"
        /\ th[e].pc = "es_next"
        /\ th[e].todo = <<>>
        /\ th[e].tube = 2
        /\ th[e].ok
        /\ ~th[e].allSuccess

\* ------------------------------------------------ validatePlan alone
\* The positions tried: one inside every range, and for each of latitude,
\* longitude and depth the two bounds and the values just outside them.
EdgePositions ==
    {PositionOf(3700000, 12700000, 50)}
        \cup {PositionOf(lat, 12700000, 50) : lat \in {-9000001, -9000000, 9000000, 9000001}}
        \cup {PositionOf(3700000, lon, 50) : lon \in {-18000001, -18000000, 18000000, 18000001}}
        \cup {PositionOf(3700000, 12700000, d) : d \in {-1001, -1000, 10000, 10001}}

\* The plans tried.  With launch and drop positions inside the ranges:
\* numbers 0 and 1, a waypoint count up to one more than the slots, and
\* waypoints inside the ranges but for the first or the last slot.  With
\* waypoints inside the ranges: any launch position, and a drop position
\* inside or outside the ranges.
InsidePosition == PositionOf(3700000, 12700000, 50)

EdgePlan(n, launch, drop, cnt, slot, wp) ==
    [PlanOf(n, launch.lat) EXCEPT
        !.launchLon = launch.lon, !.launchDepth = launch.depth,
        !.dropLat = drop.lat, !.dropLon = drop.lon, !.dropDepth = drop.depth,
        !.usWaypointCnt = cnt,
        !.stWaypoint = [i \in 1..WaypointSlots |-> IF i = slot THEN wp ELSE InsidePosition]]

EdgePlans ==
    {EdgePlan(n, InsidePosition, InsidePosition, cnt, slot, wp) :
        n \in {0, 1}, cnt \in {0, 1, WaypointSlots, WaypointSlots + 1},
        slot \in {1, WaypointSlots}, wp \in EdgePositions}
    \cup
    {EdgePlan(1, launch, drop, cnt, 1, InsidePosition) :
        launch \in EdgePositions,
        drop \in {InsidePosition, PositionOf(3600000, 18000001, 0)},
        cnt \in {0, WaypointSlots + 1}}

\* One call of validatePlan; planCall keeps the plan and the answer.
ValidatePlan(plan) ==
    /\ planCall' = [op |-> "validatePlan", list |-> 0, ok |-> validatePlan(plan),
                    why |-> "", io |-> "none", plan |-> plan]
    /\ UNCHANGED <<controlVars, trackVars, sideVars, m_cachedPlans, planFiles>>

ValidateNext == \E plan \in EdgePlans : ValidatePlan(plan)

SpecValidate == InitEmpty /\ [][ValidateNext]_vars

\* The ranges of a position, bounds included.
C35_InRanges(position) ==
    /\ position.lat >= -9000000 /\ position.lat <= 9000000
    /\ position.lon >= -18000000 /\ position.lon <= 18000000
    /\ position.depth >= -1000 /\ position.depth <= 10000

C35_PositionsInRanges(plan) ==
    /\ plan.usDroppingPlanNumber # 0
    /\ C35_InRanges(stLaunchPos(plan))
    /\ C35_InRanges(stDropPos(plan))
    /\ \A i \in 1..WaypointSlots :
           i <= plan.usWaypointCnt => C35_InRanges(plan.stWaypoint[i])

\* C35: validatePlan answers true exactly for a plan with a number other
\* than 0, launch, drop and waypoint positions inside the ranges (bounds
\* included) and at most 8 waypoints.
C35_ValidatePlan ==
    planCall.op = "validatePlan" =>
        (planCall.ok <=>
            (C35_PositionsInRanges(planCall.plan) /\ planCall.plan.usWaypointCnt <= 8))

\* What the code keeps: for a plan of at most 8 waypoints the answer is as
\* stated.
C35_UpToEight ==
    (planCall.op = "validatePlan" /\ planCall.plan.usWaypointCnt <= 8) =>
        (planCall.ok <=> C35_PositionsInRanges(planCall.plan))

\* A plan of 9 waypoints was accepted.
C35_NineAccepted ==
    /\ planCall.op = "validatePlan"
    /\ planCall.plan.usWaypointCnt = 9
    /\ planCall.ok

\* C38: a weapon in POST_LAUNCH has launched true, and launched goes from
\* true to false only in a reset() of the weapon (by initialize in
\* assignWeapon or by clearAssignment), which leaves it OFF.  (A step in
\* which the tube drops the weapon ends the weapon, not its flag.)
C38_PostLaunchIsLaunched ==
    \A t \in Tubes : m_currentState[t] = "POST_LAUNCH" => m_launched[t]

C38_ClearedByReset ==
    \A t \in Tubes :
        (m_launched[t] /\ ~m_launched'[t] /\ hasWeapon(t) /\ m_weapon'[t] = m_weapon[t]) =>
            /\ \E c \in Threads :
                   /\ th[c].pc \in {"cl_reset", "as_init"}
                   /\ th[c].tube = t
                   /\ th'[c] # th[c]
            /\ m_currentState'[t] = "OFF"

C38_LaunchedSticks == []C38_PostLaunchIsLaunched /\ [][C38_ClearedByReset]_vars

\* The weapon of tube 1 has completed a launch.
C38_Launched == m_currentState[1] = "POST_LAUNCH" /\ m_launched[1] /\ hasWeapon(1)

\* The weapon of tube 1, turned off after its launch, is about to be reset
\* by clearAssignment.
C38_ResetAfterLaunch ==
    \E c \in Threads :
        /\ th[c].pc = "cl_reset"
        /\ th[c].tube = 1
        /\ m_launched[1]
        /\ m_currentState[1] = "OFF"

\* C39: once a weapon's launched flag is true, no requestStateChange(LAUNCH)
\* on it is accepted (none starts a launch sequence) until the weapon is
\* reset.
C39_AcceptStep ==
    \A c \in Threads :
        (/\ th[c].pc = "rsc_lock"
         /\ th[c].newState = "LAUNCH"
         /\ th'[c].pc = "launch_set") =>
            ~m_launched[th[c].tube]

C39_SingleLaunch == [][C39_AcceptStep]_vars

\* A second launch sequence has run to its end on a weapon whose launched
\* flag was true all along.
C39_SecondCompleted ==
    \E c \in Threads :
        /\ th[c].pc = "ret"
        /\ th[c].newState = "LAUNCH"
        /\ th[c].ok
        /\ ~th[c].noted

C39_NeverSecondCompleted == ~C39_SecondCompleted

\* C40: requestStateChange accepts LAUNCH (starts a launch sequence) only
\* while the weapon's fire_solution_ready is true.
C40_AcceptStep ==
    \A c \in Threads :
        (/\ th[c].pc = "rsc_lock"
         /\ th[c].newState = "LAUNCH"
         /\ th'[c].pc = "launch_set") =>
            m_fireSolutionReady[th[c].tube]

C40_LaunchNeedsReady == [][C40_AcceptStep]_vars

\* What the code keeps: LAUNCH is accepted only from RTL.
C40_RtlStep ==
    \A c \in Threads :
        (/\ th[c].pc = "rsc_lock"
         /\ th[c].newState = "LAUNCH"
         /\ th'[c].pc = "launch_set") =>
            m_currentState[th[c].tube] = "RTL"

C40_LaunchNeedsRtl == [][C40_RtlStep]_vars

============================================================================
